---- MODULE Spec2Model ----
(***************************************************************************)
(* Model of the synth parsing engine: the JS/TS byte tokenizer             *)
(* (crates/wasm-js/src/lexer.rs), the JS/TS recursive-descent parser and   *)
(* its binary codec (crates/wasm-js/src/parser.rs) and the Markdown block  *)
(* scanner with its tree and binary modes (crates/wasm-md/src/             *)
(* parser_v2.rs).  A source is a sequence of bytes, each byte written as a *)
(* one-character string; offsets are 0-based as in the code.               *)
(***************************************************************************)
EXTENDS Integers, Sequences, FiniteSets, TLC

VARIABLES
  src,        \* the source buffer handed to the lexer, parser or entry point
  lexPos,     \* Lexer.pos of a lexer driven directly through next_token
  lexToks,    \* the tokens that lexer has returned so far, in order
  lexCursors, \* Lexer.pos at construction and after each of those calls
  parser,     \* the token window of a Parser driven through advance()
  parCurrent, \* Parser.current at construction and after each advance()
  parCall,    \* the last expect() on that Parser: its kind, the Parser before and after
  done,       \* the entry points that have been called on src
  tokList,    \* the Vec<Token> Lexer::tokenize returned
  tokCount,   \* what the tokenize entry point returned
  jsCount,    \* what the JS/TS parseCount entry point returned
  jsBuf,      \* what the JS/TS parseBinary entry point returned
  jsNodes,    \* Parser.nodes when parse_binary serialised it
  jsPushed,   \* the nodes that parse pushed, in the order of the pushes
  jsStall,    \* some parsing loop ran an iteration that consumed no token
  jsEnd,      \* Parser.current when parse_program returned
  mdTree,     \* the Tree the Markdown parse entry point built
  mdErr,      \* the error that entry point returned, if any
  mdBuf,      \* what the Markdown parseBinary entry point returned
  mdNodes,    \* the BinaryNodes parse_binary serialised
  mdCount,    \* what the Markdown parseCount entry point returned
  mdStall,    \* some Markdown block scan left the cursor where it was
  mdJson,     \* what the Markdown parseToJson entry point returned, if it has
  arena,      \* a Tree driven directly through add_node, add_child and get_node
  arenaCall   \* the last call on that Tree: its arguments, the Tree before, its result

vars == << src, lexPos, lexToks, lexCursors, parser, parCurrent, parCall, done, tokList,
           tokCount, jsCount, jsBuf, jsNodes, jsPushed, jsStall, jsEnd, mdTree,
           mdErr, mdBuf, mdNodes, mdCount, mdStall, mdJson, arena, arenaCall >>

\* Option<u8>::None of Lexer::byte / MarkdownParserV2::byte.
None == "None"

\* The byte 0x60 (grave accent), which a TLA+ string cannot hold.
Backtick == "GRAVE"

(***************************************************************************)
(* Bytes                                                                   *)
(***************************************************************************)
Lower == {"a","b","c","d","e","f","g","h","i","j","k","l","m","n","o","p","q",
          "r","s","t","u","v","w","x","y","z"}
Upper == {"A","B","C","D","E","F","G","H","I","J","K","L","M","N","O","P","Q",
          "R","S","T","U","V","W","X","Y","Z"}
Digit == {"0","1","2","3","4","5","6","7","8","9"}
IdentStart == Lower \cup Upper \cup {"_", "$"}
IdentPart == IdentStart \cup Digit
HexDigit == Digit \cup {"a","b","c","d","e","f","A","B","C","D","E","F", "_"}
OctDigit == {"0","1","2","3","4","5","6","7","_"}
BinDigit == {"0","1","_"}
DecDigit == Digit \cup {"_"}

\* src.len()
SrcLen == Len(src)

\* Lexer::byte: src.get(pos).copied()
byte(p) == IF p >= 0 /\ p < SrcLen THEN src[p + 1] ELSE None

current(pos) == byte(pos)

peek(pos) == byte(pos + 1)

\* memchr(b, &src[from..]) as an absolute offset, SrcLen when there is none.
RECURSIVE FindByte(_, _)
FindByte(b, from) ==
  IF from >= SrcLen THEN SrcLen
  ELSE IF src[from + 1] = b THEN from
  ELSE FindByte(b, from + 1)

\* while let Some(b) = self.current() { match b { <class> => self.pos += 1, _ => break } }
RECURSIVE ScanWhile(_, _)
ScanWhile(pos, class) ==
  IF current(pos) \in class THEN ScanWhile(pos + 1, class) ELSE pos

(***************************************************************************)
(* The JS/TS lexer (lexer.rs).  A scan_* operator takes the cursor and     *)
(* returns the token kind and the cursor after the token.                  *)
(***************************************************************************)
Scanned(kind, pos) == [kind |-> kind, pos |-> pos]

skip_whitespace(pos) == ScanWhile(pos, {" ", "\t", "\r"})

KeywordTable ==
  << [s |-> <<"a","w","a","i","t">>, k |-> "Await"],
     [s |-> <<"b","r","e","a","k">>, k |-> "Break"],
     [s |-> <<"c","a","s","e">>, k |-> "Case"],
     [s |-> <<"c","a","t","c","h">>, k |-> "Catch"],
     [s |-> <<"c","l","a","s","s">>, k |-> "Class"],
     [s |-> <<"c","o","n","s","t">>, k |-> "Const"],
     [s |-> <<"c","o","n","t","i","n","u","e">>, k |-> "Continue"],
     [s |-> <<"d","e","b","u","g","g","e","r">>, k |-> "Debugger"],
     [s |-> <<"d","e","f","a","u","l","t">>, k |-> "Default"],
     [s |-> <<"d","e","l","e","t","e">>, k |-> "Delete"],
     [s |-> <<"d","o">>, k |-> "Do"],
     [s |-> <<"e","l","s","e">>, k |-> "Else"],
     [s |-> <<"e","n","u","m">>, k |-> "Enum"],
     [s |-> <<"e","x","p","o","r","t">>, k |-> "Export"],
     [s |-> <<"e","x","t","e","n","d","s">>, k |-> "Extends"],
     [s |-> <<"f","a","l","s","e">>, k |-> "False"],
     [s |-> <<"f","i","n","a","l","l","y">>, k |-> "Finally"],
     [s |-> <<"f","o","r">>, k |-> "For"],
     [s |-> <<"f","u","n","c","t","i","o","n">>, k |-> "Function"],
     [s |-> <<"i","f">>, k |-> "If"],
     [s |-> <<"i","m","p","o","r","t">>, k |-> "Import"],
     [s |-> <<"i","n">>, k |-> "In"],
     [s |-> <<"i","n","s","t","a","n","c","e","o","f">>, k |-> "Instanceof"],
     [s |-> <<"l","e","t">>, k |-> "Let"],
     [s |-> <<"n","e","w">>, k |-> "New"],
     [s |-> <<"n","u","l","l">>, k |-> "Null"],
     [s |-> <<"r","e","t","u","r","n">>, k |-> "Return"],
     [s |-> <<"s","u","p","e","r">>, k |-> "Super"],
     [s |-> <<"s","w","i","t","c","h">>, k |-> "Switch"],
     [s |-> <<"t","h","i","s">>, k |-> "This"],
     [s |-> <<"t","h","r","o","w">>, k |-> "Throw"],
     [s |-> <<"t","r","u","e">>, k |-> "True"],
     [s |-> <<"t","r","y">>, k |-> "Try"],
     [s |-> <<"t","y","p","e","o","f">>, k |-> "Typeof"],
     [s |-> <<"v","a","r">>, k |-> "Var"],
     [s |-> <<"v","o","i","d">>, k |-> "Void"],
     [s |-> <<"w","h","i","l","e">>, k |-> "While"],
     [s |-> <<"w","i","t","h">>, k |-> "With"],
     [s |-> <<"y","i","e","l","d">>, k |-> "Yield"],
     [s |-> <<"a","s">>, k |-> "As"],
     [s |-> <<"a","s","y","n","c">>, k |-> "Async"],
     [s |-> <<"f","r","o","m">>, k |-> "From"],
     [s |-> <<"g","e","t">>, k |-> "Get"],
     [s |-> <<"o","f">>, k |-> "Of"],
     [s |-> <<"s","e","t">>, k |-> "Set"],
     [s |-> <<"s","t","a","t","i","c">>, k |-> "Static"],
     [s |-> <<"t","y","p","e">>, k |-> "Type"],
     [s |-> <<"i","n","t","e","r","f","a","c","e">>, k |-> "Interface"],
     [s |-> <<"i","m","p","l","e","m","e","n","t","s">>, k |-> "Implements"],
     [s |-> <<"p","r","i","v","a","t","e">>, k |-> "Private"],
     [s |-> <<"p","r","o","t","e","c","t","e","d">>, k |-> "Protected"],
     [s |-> <<"p","u","b","l","i","c">>, k |-> "Public"],
     [s |-> <<"r","e","a","d","o","n","l","y">>, k |-> "Readonly"],
     [s |-> <<"d","e","c","l","a","r","e">>, k |-> "Declare"],
     [s |-> <<"a","b","s","t","r","a","c","t">>, k |-> "Abstract"],
     [s |-> <<"n","a","m","e","s","p","a","c","e">>, k |-> "Namespace"],
     [s |-> <<"m","o","d","u","l","e">>, k |-> "Module"] >>

\* a lookup that takes an identifier for the keyword it begins with
KeywordOfPrefix(ident) ==
  LET hits == {i \in 1..Len(KeywordTable) :
                 /\ Len(KeywordTable[i].s) <= Len(ident)
                 /\ SubSeq(ident, 1, Len(KeywordTable[i].s)) = KeywordTable[i].s}
  IN IF hits # {} THEN KeywordTable[CHOOSE i \in hits : TRUE].k ELSE "Identifier"

\* the match on the identifier's bytes in scan_identifier
KeywordKind(ident) ==
  IF \E i \in 1..Len(KeywordTable) : KeywordTable[i].s = ident
  THEN KeywordTable[CHOOSE i \in 1..Len(KeywordTable) : KeywordTable[i].s = ident].k
  ELSE "Identifier"

scan_identifier(pos) ==
  LET end == ScanWhile(pos, IdentPart)
  IN Scanned(KeywordKind(SubSeq(src, pos + 1, end)), end)

check_bigint(pos) ==
  IF current(pos) = "n" THEN Scanned("BigInt", pos + 1) ELSE Scanned("Number", pos)

scan_number(pos) ==
  IF current(pos) = "0" /\ peek(pos) \in {"x", "X"}
    THEN check_bigint(ScanWhile(pos + 2, HexDigit))
  ELSE IF current(pos) = "0" /\ peek(pos) \in {"o", "O"}
    THEN check_bigint(ScanWhile(pos + 2, OctDigit))
  ELSE IF current(pos) = "0" /\ peek(pos) \in {"b", "B"}
    THEN check_bigint(ScanWhile(pos + 2, BinDigit))
  ELSE
    LET p1 == ScanWhile(pos, DecDigit)
        p2 == IF current(p1) = "." /\ peek(p1) \in Digit
              THEN ScanWhile(p1 + 1, DecDigit) ELSE p1
        p3 == IF current(p2) \in {"e", "E"}
              THEN LET q == p2 + 1
                       r == IF current(q) \in {"+", "-"} THEN q + 1 ELSE q
                   IN ScanWhile(r, DecDigit)
              ELSE p2
    IN check_bigint(p3)

\* the loop of scan_string, entered after the opening quote
RECURSIVE scan_string_loop(_, _)
scan_string_loop(pos, quote) ==
  LET b == current(pos) IN
  IF b = None THEN Scanned("String", pos)
  ELSE IF b = "\\" THEN scan_string_loop(pos + 2, quote)
  ELSE IF b = "\n" THEN Scanned("String", pos)
  ELSE IF b = quote THEN Scanned("String", pos + 1)
  ELSE scan_string_loop(pos + 1, quote)

scan_string(pos, quote) == scan_string_loop(pos + 1, quote)

\* the loop of scan_template, entered after the opening grave accent
RECURSIVE scan_template_loop(_)
scan_template_loop(pos) ==
  LET b == current(pos) IN
  IF b = None THEN Scanned("Template", pos)
  ELSE IF b = "\\" THEN scan_template_loop(pos + 2)
  ELSE IF b = Backtick THEN Scanned("Template", pos + 1)
  ELSE IF b = "$" /\ peek(pos) = "{" THEN scan_template_loop(pos + 2)
  ELSE scan_template_loop(pos + 1)

scan_template(pos) == scan_template_loop(pos + 1)

\* scan_dot without the step over the dot: a token that takes no byte
scan_dot_in_place(pos0) == Scanned("Dot", pos0)

scan_dot(pos0) ==
  LET pos == pos0 + 1 IN
  IF current(pos) = "." /\ peek(pos) = "." THEN Scanned("DotDotDot", pos + 2)
  ELSE Scanned("Dot", pos)

scan_question(pos0) ==
  LET pos == pos0 + 1 IN
  IF current(pos) = "."
    THEN IF ~(peek(pos) \in Digit) THEN Scanned("QuestionDot", pos + 1)
         ELSE Scanned("Question", pos)
  ELSE IF current(pos) = "?"
    THEN IF current(pos + 1) = "=" THEN Scanned("QuestionQuestionEq", pos + 2)
         ELSE Scanned("QuestionQuestion", pos + 1)
  ELSE Scanned("Question", pos)

scan_plus(pos0) ==
  LET pos == pos0 + 1 IN
  IF current(pos) = "+" THEN Scanned("PlusPlus", pos + 1)
  ELSE IF current(pos) = "=" THEN Scanned("PlusEq", pos + 1)
  ELSE Scanned("Plus", pos)

scan_minus(pos0) ==
  LET pos == pos0 + 1 IN
  IF current(pos) = "-" THEN Scanned("MinusMinus", pos + 1)
  ELSE IF current(pos) = "=" THEN Scanned("MinusEq", pos + 1)
  ELSE Scanned("Minus", pos)

scan_star(pos0) ==
  LET pos == pos0 + 1 IN
  IF current(pos) = "*"
    THEN IF current(pos + 1) = "=" THEN Scanned("StarStarEq", pos + 2)
         ELSE Scanned("StarStar", pos + 1)
  ELSE IF current(pos) = "=" THEN Scanned("StarEq", pos + 1)
  ELSE Scanned("Star", pos)

\* the block-comment loop of scan_slash: while self.pos + 1 < self.src.len()
RECURSIVE block_comment_loop(_)
block_comment_loop(pos) ==
  IF pos + 1 < SrcLen
  THEN IF current(pos) = "*" /\ peek(pos) = "/" THEN Scanned("BlockComment", pos + 2)
       ELSE block_comment_loop(pos + 1)
  ELSE Scanned("BlockComment", SrcLen)

scan_slash(pos0) ==
  LET pos == pos0 + 1 IN
  IF current(pos) = "/" THEN Scanned("LineComment", FindByte("\n", pos + 1))
  ELSE IF current(pos) = "*" THEN block_comment_loop(pos + 1)
  ELSE IF current(pos) = "=" THEN Scanned("SlashEq", pos + 1)
  ELSE Scanned("Slash", pos)

scan_percent(pos0) ==
  LET pos == pos0 + 1 IN
  IF current(pos) = "=" THEN Scanned("PercentEq", pos + 1) ELSE Scanned("Percent", pos)

scan_lt(pos0) ==
  LET pos == pos0 + 1 IN
  IF current(pos) = "<"
    THEN IF current(pos + 1) = "=" THEN Scanned("LtLtEq", pos + 2)
         ELSE Scanned("LtLt", pos + 1)
  ELSE IF current(pos) = "=" THEN Scanned("LtEq", pos + 1)
  ELSE Scanned("Lt", pos)

\* a scan of '>' that never looks at the byte behind it
scan_gt_one_byte(pos0) == Scanned("Gt", pos0 + 1)

scan_gt(pos0) ==
  LET pos == pos0 + 1 IN
  IF current(pos) = ">"
    THEN IF current(pos + 1) = ">"
           THEN IF current(pos + 2) = "=" THEN Scanned("GtGtGtEq", pos + 3)
                ELSE Scanned("GtGtGt", pos + 2)
         ELSE IF current(pos + 1) = "=" THEN Scanned("GtGtEq", pos + 2)
         ELSE Scanned("GtGt", pos + 1)
  ELSE IF current(pos) = "=" THEN Scanned("GtEq", pos + 1)
  ELSE Scanned("Gt", pos)

scan_eq(pos0) ==
  LET pos == pos0 + 1 IN
  IF current(pos) = "="
    THEN IF current(pos + 1) = "=" THEN Scanned("EqEqEq", pos + 2)
         ELSE Scanned("EqEq", pos + 1)
  ELSE IF current(pos) = ">" THEN Scanned("Arrow", pos + 1)
  ELSE Scanned("Eq", pos)

scan_bang(pos0) ==
  LET pos == pos0 + 1 IN
  IF current(pos) = "="
    THEN IF current(pos + 1) = "=" THEN Scanned("BangEqEq", pos + 2)
         ELSE Scanned("BangEq", pos + 1)
  ELSE Scanned("Bang", pos)

scan_amp(pos0) ==
  LET pos == pos0 + 1 IN
  IF current(pos) = "&"
    THEN IF current(pos + 1) = "=" THEN Scanned("AmpAmpEq", pos + 2)
         ELSE Scanned("AmpAmp", pos + 1)
  ELSE IF current(pos) = "=" THEN Scanned("AmpEq", pos + 1)
  ELSE Scanned("Amp", pos)

scan_pipe(pos0) ==
  LET pos == pos0 + 1 IN
  IF current(pos) = "|"
    THEN IF current(pos + 1) = "=" THEN Scanned("PipePipeEq", pos + 2)
         ELSE Scanned("PipePipe", pos + 1)
  ELSE IF current(pos) = "=" THEN Scanned("PipeEq", pos + 1)
  ELSE Scanned("Pipe", pos)

scan_caret(pos0) ==
  LET pos == pos0 + 1 IN
  IF current(pos) = "=" THEN Scanned("CaretEq", pos + 1) ELSE Scanned("Caret", pos)

\* the single-byte punctuation arms of next_token
SinglePunct(b) ==
  CASE b = "{" -> "LBrace"   [] b = "}" -> "RBrace"
    [] b = "(" -> "LParen"   [] b = ")" -> "RParen"
    [] b = "[" -> "LBracket" [] b = "]" -> "RBracket"
    [] b = ";" -> "Semicolon" [] b = "," -> "Comma"
    [] b = ":" -> "Colon"    [] b = "~" -> "Tilde"
    [] b = "@" -> "At"

\* the match on the first byte in next_token
scan_token(b, pos) ==
  CASE b = "\n" -> Scanned("Newline", pos + 1)
    [] b \in IdentStart -> scan_identifier(pos)
    [] b \in Digit -> scan_number(pos)
    [] b \in {"\"", "'"} -> scan_string(pos, b)
    [] b = Backtick -> scan_template(pos)
    [] b \in {"{", "}", "(", ")", "[", "]", ";", ",", ":", "~", "@"} ->
         Scanned(SinglePunct(b), pos + 1)
    [] b = "." -> scan_dot(pos)
    [] b = "?" -> scan_question(pos)
    [] b = "+" -> scan_plus(pos)
    [] b = "-" -> scan_minus(pos)
    [] b = "*" -> scan_star(pos)
    [] b = "/" -> scan_slash(pos)
    [] b = "%" -> scan_percent(pos)
    [] b = "<" -> scan_lt(pos)
    [] b = ">" -> scan_gt(pos)
    [] b = "=" -> scan_eq(pos)
    [] b = "!" -> scan_bang(pos)
    [] b = "&" -> scan_amp(pos)
    [] b = "|" -> scan_pipe(pos)
    [] b = "^" -> scan_caret(pos)
    [] OTHER -> Scanned("Invalid", pos + 1)

Token(kind, start, end) == [kind |-> kind, start |-> start, end |-> end]

\* an end of input that moves the cursor one byte on
eof_token_stepping(start) == [tok |-> Token("Eof", start, start), pos |-> start + 1]

\* the early return of next_token at the end of the input
eof_token(start) == [tok |-> Token("Eof", start, start), pos |-> start]

\* Lexer::next_token from cursor pos0: the token returned and the cursor after.
next_token(pos0) ==
  LET start == skip_whitespace(pos0)
      b == current(start)
  IN IF b = None
     THEN eof_token(start)
     ELSE LET s == scan_token(b, start)
          IN [tok |-> Token(s.kind, start, s.pos), pos |-> s.pos]

\* the loop of Lexer::tokenize: push every token up to and including Eof
RECURSIVE tokenize_loop(_, _)
tokenize_loop(pos, tokens) ==
  LET r == next_token(pos)
      pushed == Append(tokens, r.tok)
  IN IF r.tok.kind = "Eof" THEN pushed ELSE tokenize_loop(r.pos, pushed)

\* a tokenize that stops at Eof before pushing it
tokenize_without_eof ==
  LET tokens == tokenize_loop(0, << >>)
  IN SubSeq(tokens, 1, Len(tokens) - 1)

\* Lexer::tokenize on a new lexer
tokenize == tokenize_loop(0, << >>)

(***************************************************************************)
(* The JS/TS parser (parser.rs).  A parser state is the record              *)
(*   pos   : the lexer's cursor (Parser.lexer.pos)                          *)
(*   cur   : Parser.current     peek : Parser.peek                          *)
(*   nodes : Parser.nodes                                                   *)
(*   log   : every node pushed so far, in the order of the pushes           *)
(*   stall : a loop ran an iteration that consumed no token, which in the   *)
(*           code repeats for ever (the token window decides every branch)  *)
(* and a parse_* operator maps the state before a call to the state after.  *)
(***************************************************************************)

\* enum NodeKind in declaration order; the u8 tag of a kind is its index (Program = 1)
NodeKinds ==
  << "Program", "VariableDeclaration", "VariableDeclarator", "FunctionDeclaration", "ClassDeclaration", "ImportDeclaration", "ExportDeclaration", "BlockStatement", "ExpressionStatement", "IfStatement", "ForStatement", "ForInStatement", "ForOfStatement", "WhileStatement", "DoWhileStatement", "SwitchStatement", "SwitchCase", "ReturnStatement", "ThrowStatement", "TryStatement", "CatchClause", "BreakStatement", "ContinueStatement", "EmptyStatement", "Identifier", "Literal", "ArrayExpression", "ObjectExpression", "Property", "FunctionExpression", "ArrowFunctionExpression", "ClassExpression", "CallExpression", "NewExpression", "MemberExpression", "BinaryExpression", "UnaryExpression", "UpdateExpression", "AssignmentExpression", "LogicalExpression", "ConditionalExpression", "SequenceExpression", "SpreadElement", "TemplateLiteral", "TaggedTemplateExpression", "ThisExpression", "Super", "AwaitExpression", "YieldExpression", "ArrayPattern", "ObjectPattern", "AssignmentPattern", "RestElement", "ImportSpecifier", "ImportDefaultSpecifier", "ImportNamespaceSpecifier", "ExportSpecifier", "MethodDefinition", "PropertyDefinition", "Comment" >>

NodeKindTag(kind) == CHOOSE i \in 1..Len(NodeKinds) : NodeKinds[i] = kind

\* mod flags
CONST == 1
LET_ == 2
ASYNC == 4
GENERATOR == 8
COMPUTED == 16
SHORTHAND == 32
STATIC == 64
EXPORT_DEFAULT == 128

\* a | b on u8 flag sets
RECURSIVE BitOr(_, _)
BitOr(a, b) ==
  IF a = 0 THEN b
  ELSE IF b = 0 THEN a
  ELSE (IF a % 2 = 1 \/ b % 2 = 1 THEN 1 ELSE 0) + 2 * BitOr(a \div 2, b \div 2)

\* Node::new
Node(kind, start, end) ==
  [kind |-> kind, flags |-> 0, start |-> start, end |-> end, extra |-> 0]

with_flags(node, flags) == [node EXCEPT !.flags = flags]

with_extra(node, extra) == [node EXCEPT !.extra = extra]

\* self.nodes.push(node)
push(p, node) == [p EXCEPT !.nodes = Append(@, node), !.log = Append(@, node)]

\* Parser::new
ParserNew ==
  LET t1 == next_token(0)
      t2 == next_token(t1.pos)
  IN [pos |-> t2.pos, cur |-> t1.tok, peek |-> t2.tok, nodes |-> << >>,
      log |-> << >>, stall |-> FALSE]

advance(p) ==
  LET r == next_token(p.pos)
  IN [p EXCEPT !.cur = p.peek, !.peek = r.tok, !.pos = r.pos]

\* self.method(): a call of one method of the parser by another, by the method's
\* name (the table of the methods is defined behind the last of them)
RECURSIVE call(_, _)

\* the methods of the descent from an expression to a primary expression and
\* into the lists of a call and of a literal, each called by one before it
RECURSIVE parse_expression(_)
RECURSIVE parse_assignment_expression(_)
RECURSIVE parse_unary_expression(_)
RECURSIVE parse_postfix_expression(_)
RECURSIVE parse_member_expression(_)
RECURSIVE parse_primary_expression(_)
RECURSIVE parse_arguments(_)
RECURSIVE parse_array_expression(_)
RECURSIVE parse_object_expression(_)

\* an iteration from state p to state q took at least one token from the input
Consumed(p, q) == q.cur.start > p.cur.start

\* an iteration that consumed nothing: the code loops for ever from here
Stalled(q) == [q EXCEPT !.stall = TRUE]

\* the result of a loop that counts its iterations' items
LoopRes(p, count) == [p |-> p, count |-> count]

\* the calls a method makes one after another, each on the state the one before
\* it has left: the state after the last of them
Last(calls) == calls[Len(calls)]

RECURSIVE skip_comments_and_newlines(_)
skip_comments_and_newlines(p) ==
  IF p.cur.kind \in {"Newline", "LineComment", "BlockComment"}
  THEN LET q == call("advance", p)
       IN IF Consumed(p, q) THEN skip_comments_and_newlines(q) ELSE Stalled(q)
  ELSE p

at(p, kind) == p.cur.kind = kind

\* Parser::eat: the state after; its boolean result is at(p, kind) before the call
eat(p, kind) == IF at(p, kind) THEN call("advance", p) ELSE p

\* an expect that skips the current token when it is not of the kind
expect_skipping(p, kind) == call("advance", p)

expect(p, kind) == eat(p, kind)


\* the assignment initialiser shared by declarators, parameters and patterns:
\* if self.eat(TokenKind::Eq) { skip_comments_and_newlines(); parse_expression(); }
eat_initializer(p) ==
  IF at(p, "Eq")
  THEN call("parse_expression", call("skip_comments_and_newlines", call("advance", p)))
  ELSE p

parse_variable_declarator(p) ==
  LET start == p.cur.start
      p1 == call("skip_comments_and_newlines", call("parse_binding_pattern", p))
      p2 == Last(<<p1, eat_initializer(p1)>>)
  IN push(p2, Node("VariableDeclarator", start, p2.cur.start))

\* the loop { ... } of parse_variable_declaration
RECURSIVE variable_declarators_loop(_, _)
variable_declarators_loop(p, count) ==
  LET q == call("skip_comments_and_newlines", call("parse_variable_declarator", p))
  IN IF ~at(q, "Comma") THEN LoopRes(q, count + 1)
     ELSE LET r == call("skip_comments_and_newlines", call("advance", q))
          IN IF Consumed(p, r) THEN variable_declarators_loop(r, count + 1)
             ELSE LoopRes(Stalled(r), count + 1)

parse_variable_declaration(p) ==
  LET start == p.cur.start
      flags == IF at(p, "Const") THEN CONST ELSE IF at(p, "Let") THEN LET_ ELSE 0
      p1 == call("skip_comments_and_newlines", call("advance", p))
      l == variable_declarators_loop(p1, 0)
      p2 == Last(<<p1, l, eat(l.p, "Semicolon")>>)
  IN push(p2, with_extra(with_flags(Node("VariableDeclaration", start, p2.cur.start),
                                    flags), l.count))

parse_rest_element(p) ==
  LET start == p.cur.start
      p1 == call("parse_binding_pattern", call("advance", p))
  IN push(p1, Node("RestElement", start, p1.cur.start))

\* the while loop of parse_array_pattern
RECURSIVE array_pattern_loop(_, _)
array_pattern_loop(p, count) ==
  IF at(p, "RBracket") \/ at(p, "Eof") THEN LoopRes(p, count)
  ELSE IF at(p, "Comma")
    THEN LET q == call("skip_comments_and_newlines", call("advance", p))
         IN IF Consumed(p, q) THEN array_pattern_loop(q, count)
            ELSE LoopRes(Stalled(q), count)
  ELSE IF at(p, "DotDotDot") THEN LoopRes(call("parse_rest_element", p), count + 1)
  ELSE LET q == call("skip_comments_and_newlines", call("parse_binding_pattern", p))
       IN IF ~at(q, "Comma") THEN LoopRes(q, count + 1)
          ELSE LET r == call("skip_comments_and_newlines", call("advance", q))
               IN IF Consumed(p, r) THEN array_pattern_loop(r, count + 1)
                  ELSE LoopRes(Stalled(r), count + 1)

parse_array_pattern(p) ==
  LET start == p.cur.start
      l == array_pattern_loop(call("skip_comments_and_newlines", call("advance", p)), 0)
      p1 == Last(<<l, expect(l.p, "RBracket")>>)
  IN push(p1, with_extra(Node("ArrayPattern", start, p1.cur.start), l.count))

parse_property_pattern(p) ==
  LET start == p.cur.start
      p1 == call("skip_comments_and_newlines", call("parse_identifier", p))
      p2 == IF at(p1, "Colon")
            THEN call("parse_binding_pattern", call("skip_comments_and_newlines", call("advance", p1)))
            ELSE p1
      p3 == Last(<<p1, p2, eat_initializer(p2)>>)
  IN push(p3, Node("Property", start, p3.cur.start))

\* the while loop of parse_object_pattern
RECURSIVE object_pattern_loop(_, _)
object_pattern_loop(p, count) ==
  IF at(p, "RBrace") \/ at(p, "Eof") THEN LoopRes(p, count)
  ELSE IF at(p, "DotDotDot") THEN LoopRes(call("parse_rest_element", p), count + 1)
  ELSE LET q == call("skip_comments_and_newlines", call("parse_property_pattern", p))
       IN IF ~at(q, "Comma") THEN LoopRes(q, count + 1)
          ELSE LET r == call("skip_comments_and_newlines", call("advance", q))
               IN IF Consumed(p, r) THEN object_pattern_loop(r, count + 1)
                  ELSE LoopRes(Stalled(r), count + 1)

parse_object_pattern(p) ==
  LET start == p.cur.start
      l == object_pattern_loop(call("skip_comments_and_newlines", call("advance", p)), 0)
      p1 == Last(<<l, expect(l.p, "RBrace")>>)
  IN push(p1, with_extra(Node("ObjectPattern", start, p1.cur.start), l.count))

parse_binding_pattern(p) ==
  IF at(p, "LBracket") THEN call("parse_array_pattern", p)
  ELSE IF at(p, "LBrace") THEN call("parse_object_pattern", p)
  ELSE call("parse_identifier", p)

parse_function_declaration(p) ==
  LET start == p.cur.start
      isAsync == at(p, "Async")
      p1 == IF isAsync THEN call("skip_comments_and_newlines", call("advance", p)) ELSE p
      p2 == call("skip_comments_and_newlines", expect(p1, "Function"))
      isGen == at(p2, "Star")
      p3 == IF isGen THEN call("skip_comments_and_newlines", call("advance", p2)) ELSE p2
      flags == BitOr(IF isAsync THEN ASYNC ELSE 0, IF isGen THEN GENERATOR ELSE 0)
      p4 == IF at(p3, "Identifier") THEN call("parse_identifier", p3) ELSE p3
      p5 == call("parse_function_params", call("skip_comments_and_newlines", p4))
      p6 == Last(<<p1, p2, p3, p4, p5,
            call("parse_block_statement", call("skip_comments_and_newlines", p5))>>)
  IN push(p6, with_flags(Node("FunctionDeclaration", start, p6.cur.start), flags))

\* the while loop of parse_function_params
RECURSIVE function_params_loop(_)
function_params_loop(p) ==
  IF at(p, "RParen") \/ at(p, "Eof") THEN p
  ELSE IF at(p, "DotDotDot") THEN call("parse_rest_element", p)
  ELSE LET q1 == call("skip_comments_and_newlines", call("parse_binding_pattern", p))
           q2 == Last(<<q1, call("skip_comments_and_newlines", eat_initializer(q1))>>)
       IN IF ~at(q2, "Comma") THEN q2
          ELSE LET r == call("skip_comments_and_newlines", call("advance", q2))
               IN IF Consumed(p, r) THEN function_params_loop(r) ELSE Stalled(r)

parse_function_params(p) ==
  LET p1 == call("skip_comments_and_newlines", expect(p, "LParen"))
  IN expect(function_params_loop(p1), "RParen")

\* the optional name and extends clause shared by parse_class_declaration and
\* parse_class_expression, up to and including the class body
class_tail(p) ==
  LET p1 == call("skip_comments_and_newlines", call("advance", p))
      p2 == IF at(p1, "Identifier") THEN call("parse_identifier", p1) ELSE p1
      p3 == call("skip_comments_and_newlines", p2)
      p4 == Last(<<p1, p2, p3,
            IF at(p3, "Extends")
             THEN call("parse_expression", call("skip_comments_and_newlines", call("advance", p3)))
             ELSE p3>>)
  IN call("parse_class_body", call("skip_comments_and_newlines", p4))

parse_class_declaration(p) ==
  LET start == p.cur.start
      p1 == class_tail(p)
  IN push(p1, Node("ClassDeclaration", start, p1.cur.start))

parse_class_member(p) ==
  LET start == p.cur.start
      isStatic == at(p, "Static")
      p1 == IF isStatic THEN call("skip_comments_and_newlines", call("advance", p)) ELSE p
      isAsync == at(p1, "Async")
      p2 == IF isAsync THEN call("skip_comments_and_newlines", call("advance", p1)) ELSE p1
      isGen == at(p2, "Star")
      p3 == IF isGen THEN call("skip_comments_and_newlines", call("advance", p2)) ELSE p2
      p4 == IF at(p3, "Get") \/ at(p3, "Set")
            THEN call("skip_comments_and_newlines", call("advance", p3)) ELSE p3
      isComputed == at(p4, "LBracket")
      p5 == IF isComputed
            THEN expect(call("parse_expression", call("advance", p4)), "RBracket")
            ELSE call("parse_identifier", p4)
      flags == BitOr(BitOr(IF isStatic THEN STATIC ELSE 0, IF isAsync THEN ASYNC ELSE 0),
                     BitOr(IF isGen THEN GENERATOR ELSE 0,
                           IF isComputed THEN COMPUTED ELSE 0))
      p6 == Last(<<p1, p2, p3, p4, p5, call("skip_comments_and_newlines", p5)>>)
  IN IF at(p6, "LParen")
     THEN LET p7 == call("skip_comments_and_newlines", call("parse_function_params", p6))
              p8 == Last(<<p7, call("parse_block_statement", p7)>>)
          IN push(p8, with_flags(Node("MethodDefinition", start, p8.cur.start), flags))
     ELSE LET p7 == eat(eat_initializer(p6), "Semicolon")
          IN push(p7, with_flags(Node("PropertyDefinition", start, p7.cur.start), flags))

\* the while loop of parse_class_body
RECURSIVE class_body_loop(_)
class_body_loop(p) ==
  IF at(p, "RBrace") \/ at(p, "Eof") THEN p
  ELSE LET q == call("skip_comments_and_newlines", call("parse_class_member", p))
       IN IF Consumed(p, q) THEN class_body_loop(q) ELSE Stalled(q)

parse_class_body(p) ==
  LET p1 == call("skip_comments_and_newlines", expect(p, "LBrace"))
  IN expect(class_body_loop(p1), "RBrace")

\* the while loop over named imports in parse_import_declaration
RECURSIVE import_specifiers_loop(_)
import_specifiers_loop(p) ==
  IF at(p, "RBrace") \/ at(p, "Eof") THEN p
  ELSE LET spec_start == p.cur.start
           q1 == call("skip_comments_and_newlines", call("parse_identifier", p))
           q2 == IF at(q1, "As")
                 THEN call("parse_identifier", call("skip_comments_and_newlines", call("advance", q1)))
                 ELSE q1
           q3 == push(q2, Node("ImportSpecifier", spec_start, q2.cur.start))
           q4 == Last(<<q1, q2, q3, call("skip_comments_and_newlines", q3)>>)
       IN IF ~at(q4, "Comma") THEN q4
          ELSE LET r == call("skip_comments_and_newlines", call("advance", q4))
               IN IF Consumed(p, r) THEN import_specifiers_loop(r) ELSE Stalled(r)

parse_import_declaration(p) ==
  LET start == p.cur.start
      p1 == call("skip_comments_and_newlines", call("advance", p))
  IN IF at(p1, "String")
     THEN LET p2 == eat(call("advance", p1), "Semicolon")
          IN push(p2, Node("ImportDeclaration", start, p2.cur.start))
     ELSE
       LET p2 == IF at(p1, "Identifier")
                 THEN LET spec_start == p1.cur.start
                          q1 == call("parse_identifier", p1)
                          q2 == push(q1, Node("ImportDefaultSpecifier", spec_start,
                                              q1.cur.start))
                          q3 == Last(<<q1, q2, call("skip_comments_and_newlines", q2)>>)
                      IN IF at(q3, "Comma")
                         THEN call("skip_comments_and_newlines", call("advance", q3)) ELSE q3
                 ELSE p1
           p3 == IF at(p2, "Star")
                 THEN LET q0 == call("advance", p2)
                          spec_start == q0.cur.start
                          q1 == call("skip_comments_and_newlines", q0)
                          q2 == call("skip_comments_and_newlines", expect(q1, "As"))
                          q3 == Last(<<q0, q1, q2, call("parse_identifier", q2)>>)
                      IN push(q3, Node("ImportNamespaceSpecifier", spec_start,
                                       q3.cur.start))
                 ELSE IF at(p2, "LBrace")
                 THEN expect(import_specifiers_loop(
                               call("skip_comments_and_newlines", call("advance", p2))), "RBrace")
                 ELSE p2
           p4 == call("skip_comments_and_newlines", 
                   expect(call("skip_comments_and_newlines", p3), "From"))
           p5 == Last(<<p2, p3, p4, eat(call("advance", p4), "Semicolon")>>)
       IN push(p5, Node("ImportDeclaration", start, p5.cur.start))

\* the while loop over named exports in parse_export_declaration
RECURSIVE export_specifiers_loop(_)
export_specifiers_loop(p) ==
  IF at(p, "RBrace") \/ at(p, "Eof") THEN p
  ELSE LET spec_start == p.cur.start
           q1 == call("skip_comments_and_newlines", call("parse_identifier", p))
           q2 == IF at(q1, "As")
                 THEN call("parse_identifier", call("skip_comments_and_newlines", call("advance", q1)))
                 ELSE q1
           q3 == push(q2, Node("ExportSpecifier", spec_start, q2.cur.start))
           q4 == Last(<<q1, q2, q3, call("skip_comments_and_newlines", q3)>>)
       IN IF ~at(q4, "Comma") THEN q4
          ELSE LET r == call("skip_comments_and_newlines", call("advance", q4))
               IN IF Consumed(p, r) THEN export_specifiers_loop(r) ELSE Stalled(r)

parse_export_declaration(p) ==
  LET start == p.cur.start
      p1 == call("skip_comments_and_newlines", call("advance", p))
      isDefault == at(p1, "Default")
      flags == IF isDefault THEN EXPORT_DEFAULT ELSE 0
      p2 == Last(<<p1,
             IF isDefault
             THEN LET q == call("skip_comments_and_newlines", call("advance", p1))
             IN IF q.cur.kind \in {"Function", "Async"} THEN call("parse_function_declaration", q)
                ELSE IF at(q, "Class") THEN call("parse_class_declaration", q)
                ELSE eat(call("parse_expression", q), "Semicolon")
             ELSE IF at(p1, "LBrace")
             THEN LET q1 == expect(export_specifiers_loop(
                                call("skip_comments_and_newlines", call("advance", p1))), "RBrace")
                 q2 == call("skip_comments_and_newlines", q1)
                 q3 == Last(<<q1, q2,
                       IF at(q2, "From")
                        THEN call("advance", call("skip_comments_and_newlines", call("advance", q2)))
                        ELSE q2>>)
             IN eat(q3, "Semicolon")
             ELSE IF at(p1, "Star")
             THEN LET q1 == call("skip_comments_and_newlines", call("advance", p1))
                 q2 == IF at(q1, "As")
                       THEN call("parse_identifier", call("skip_comments_and_newlines", call("advance", q1)))
                       ELSE q1
                 q3 == Last(<<q1, q2,
                       call("skip_comments_and_newlines", 
                         expect(call("skip_comments_and_newlines", q2), "From"))>>)
             IN eat(call("advance", q3), "Semicolon")
             ELSE IF p1.cur.kind \in {"Const", "Let", "Var"} THEN call("parse_variable_declaration", p1)
             ELSE IF p1.cur.kind \in {"Function", "Async"} THEN call("parse_function_declaration", p1)
             ELSE IF at(p1, "Class") THEN call("parse_class_declaration", p1)
             ELSE p1>>)
  IN push(p2, with_flags(Node("ExportDeclaration", start, p2.cur.start), flags))

\* the while loop of parse_block_statement
RECURSIVE block_statements_loop(_, _)
block_statements_loop(p, count) ==
  IF at(p, "RBrace") \/ at(p, "Eof") THEN LoopRes(p, count)
  ELSE LET q == call("skip_comments_and_newlines", call("parse_statement_or_declaration", p))
       IN IF Consumed(p, q) THEN block_statements_loop(q, count + 1)
          ELSE LoopRes(Stalled(q), count + 1)

parse_block_statement(p) ==
  LET start == p.cur.start
      l == block_statements_loop(call("skip_comments_and_newlines", expect(p, "LBrace")), 0)
      p1 == Last(<<l, expect(l.p, "RBrace")>>)
  IN push(p1, with_extra(Node("BlockStatement", start, p1.cur.start), l.count))

\* ( expression ) with the comment/newline skips around it, as the if, while,
\* do-while and switch heads do it; entered at the token that should be "("
paren_expression(p) ==
  LET p1 == call("skip_comments_and_newlines", expect(p, "LParen"))
      p2 == Last(<<p1, call("skip_comments_and_newlines", call("parse_expression", p1))>>)
  IN expect(p2, "RParen")

parse_if_statement(p) ==
  LET start == p.cur.start
      p1 == paren_expression(call("skip_comments_and_newlines", call("advance", p)))
      p2 == call("parse_statement_or_declaration", call("skip_comments_and_newlines", p1))
      p3 == call("skip_comments_and_newlines", p2)
      has_else == at(p3, "Else")
      p4 == Last(<<p1, p2, p3,
            IF has_else
             THEN call("parse_statement_or_declaration", call("skip_comments_and_newlines", call("advance", p3)))
             ELSE p3>>)
  IN push(p4, with_flags(Node("IfStatement", start, p4.cur.start),
                         IF has_else THEN 1 ELSE 0))

parse_for_statement(p) ==
  LET start == p.cur.start
      p1 == call("skip_comments_and_newlines", call("advance", p))
      is_await == at(p1, "Await")
      p2 == call("skip_comments_and_newlines", eat(p1, "Await"))
      p3 == call("skip_comments_and_newlines", expect(p2, "LParen"))
      has_init == ~at(p3, "Semicolon")
      p4 == IF has_init
            THEN IF p3.cur.kind \in {"Const", "Let", "Var"}
                 THEN call("parse_variable_declaration", p3)
                 ELSE call("parse_expression", p3)
            ELSE p3
      p5 == call("skip_comments_and_newlines", p4)
      kind == IF at(p5, "Of") THEN "ForOfStatement"
              ELSE IF at(p5, "In") THEN "ForInStatement"
              ELSE "ForStatement"
      p6 == IF kind # "ForStatement"
            THEN call("parse_expression", call("skip_comments_and_newlines", call("advance", p5)))
            ELSE LET q1 == call("skip_comments_and_newlines", eat(p5, "Semicolon"))
                     q2 == IF ~at(q1, "Semicolon") THEN call("parse_expression", q1) ELSE q1
                     q3 == Last(<<q1, q2,
                           call("skip_comments_and_newlines", eat(q2, "Semicolon"))>>)
                 IN IF ~at(q3, "RParen") THEN call("parse_expression", q3) ELSE q3
      p7 == call("skip_comments_and_newlines", expect(call("skip_comments_and_newlines", p6), "RParen"))
      p8 == Last(<<p1, p2, p3, p4, p5, p6, p7, call("parse_statement_or_declaration", p7)>>)
  IN push(p8, with_flags(Node(kind, start, p8.cur.start),
                         IF is_await THEN ASYNC ELSE 0))

parse_while_statement(p) ==
  LET start == p.cur.start
      p1 == paren_expression(call("skip_comments_and_newlines", call("advance", p)))
      p2 == Last(<<p1,
            call("parse_statement_or_declaration", call("skip_comments_and_newlines", p1))>>)
  IN push(p2, Node("WhileStatement", start, p2.cur.start))

parse_do_while_statement(p) ==
  LET start == p.cur.start
      p1 == call("parse_statement_or_declaration", call("skip_comments_and_newlines", call("advance", p)))
      p2 == call("skip_comments_and_newlines", expect(call("skip_comments_and_newlines", p1), "While"))
      p3 == Last(<<p1, p2, eat(paren_expression(p2), "Semicolon")>>)
  IN push(p3, Node("DoWhileStatement", start, p3.cur.start))

\* the inner while loop of parse_switch_statement: the statements of one case
RECURSIVE case_statements_loop(_, _)
case_statements_loop(p, stmt_count) ==
  IF p.cur.kind \in {"Case", "Default", "RBrace", "Eof"} THEN LoopRes(p, stmt_count)
  ELSE LET q == call("skip_comments_and_newlines", call("parse_statement_or_declaration", p))
       IN IF Consumed(p, q) THEN case_statements_loop(q, stmt_count + 1)
          ELSE LoopRes(Stalled(q), stmt_count + 1)

\* the outer while loop of parse_switch_statement: one case per iteration
RECURSIVE switch_cases_loop(_, _)
switch_cases_loop(p, case_count) ==
  IF at(p, "RBrace") \/ at(p, "Eof") THEN LoopRes(p, case_count)
  ELSE LET case_start == p.cur.start
           is_default == at(p, "Default")
           q1 == IF is_default THEN call("advance", p)
                 ELSE call("parse_expression", call("skip_comments_and_newlines", expect(p, "Case")))
           q2 == call("skip_comments_and_newlines", 
                   expect(call("skip_comments_and_newlines", q1), "Colon"))
           l == case_statements_loop(q2, 0)
           q3 == Last(<<q1, q2, l,
                 push(l.p, with_extra(with_flags(
                        Node("SwitchCase", case_start, l.p.cur.start),
                        IF is_default THEN 1 ELSE 0), l.count))>>)
       IN IF Consumed(p, q3) THEN switch_cases_loop(q3, case_count + 1)
          ELSE LoopRes(Stalled(q3), case_count + 1)

parse_switch_statement(p) ==
  LET start == p.cur.start
      p1 == paren_expression(call("skip_comments_and_newlines", call("advance", p)))
      p2 == call("skip_comments_and_newlines", 
              expect(call("skip_comments_and_newlines", p1), "LBrace"))
      l == switch_cases_loop(p2, 0)
      p3 == Last(<<p1, p2, l, expect(l.p, "RBrace")>>)
  IN push(p3, with_extra(Node("SwitchStatement", start, p3.cur.start), l.count))

parse_return_statement(p) ==
  LET start == p.cur.start
      p1 == call("advance", p)
      has_arg == ~at(p1, "Semicolon") /\ ~at(p1, "RBrace") /\ ~at(p1, "Newline")
      p2 == IF has_arg THEN call("parse_expression", call("skip_comments_and_newlines", p1)) ELSE p1
      p3 == Last(<<p1, p2, eat(p2, "Semicolon")>>)
  IN push(p3, with_flags(Node("ReturnStatement", start, p3.cur.start),
                         IF has_arg THEN 1 ELSE 0))

parse_throw_statement(p) ==
  LET start == p.cur.start
      p1 == call("parse_expression", call("skip_comments_and_newlines", call("advance", p)))
      p2 == Last(<<p1, eat(p1, "Semicolon")>>)
  IN push(p2, Node("ThrowStatement", start, p2.cur.start))

parse_try_statement(p) ==
  LET start == p.cur.start
      p1 == call("parse_block_statement", call("skip_comments_and_newlines", call("advance", p)))
      p2 == call("skip_comments_and_newlines", p1)
      has_catch == at(p2, "Catch")
      p3 == IF has_catch
            THEN LET q0 == call("advance", p2)
                     catch_start == q0.cur.start
                     q1 == call("skip_comments_and_newlines", q0)
                     q2 == IF at(q1, "LParen")
                           THEN LET r1 == call("skip_comments_and_newlines", call("advance", q1))
                                    r2 == Last(<<r1,
                                          call("skip_comments_and_newlines", 
                                            call("parse_binding_pattern", r1))>>)
                                IN expect(r2, "RParen")
                           ELSE q1
                     q3 == Last(<<q0, q1, q2,
                           call("parse_block_statement", call("skip_comments_and_newlines", q2))>>)
                 IN push(q3, Node("CatchClause", catch_start, q3.cur.start))
            ELSE p2
      p4 == call("skip_comments_and_newlines", p3)
      has_finally == at(p4, "Finally")
      p5 == Last(<<p1, p2, p3, p4,
            IF has_finally
             THEN call("parse_block_statement", call("skip_comments_and_newlines", call("advance", p4)))
             ELSE p4>>)
      flags == BitOr(IF has_catch THEN 1 ELSE 0, IF has_finally THEN 2 ELSE 0)
  IN push(p5, with_flags(Node("TryStatement", start, p5.cur.start), flags))

\* parse_break_statement and parse_continue_statement: keyword, optional label, ";"
jump_statement(p, kind) ==
  LET start == p.cur.start
      p1 == call("advance", p)
      p2 == IF at(p1, "Identifier") THEN call("parse_identifier", p1) ELSE p1
      p3 == Last(<<p1, p2, eat(p2, "Semicolon")>>)
  IN push(p3, Node(kind, start, p3.cur.start))

parse_break_statement(p) == jump_statement(p, "BreakStatement")

parse_continue_statement(p) == jump_statement(p, "ContinueStatement")

parse_empty_statement(p) ==
  LET start == p.cur.start
  IN push(call("advance", p), Node("EmptyStatement", start, start + 1))

parse_expression_statement(p) ==
  LET start == p.cur.start
  IN CHOOSE r \in
       {push(p1, Node("ExpressionStatement", start, p1.cur.start)) :
        p1 \in {eat(q, "Semicolon") : q \in {parse_expression(p)}}} : TRUE

parse_statement_or_declaration(p) ==
  LET k == p.cur.kind IN
  CASE k \in {"Const", "Let", "Var"} -> call("parse_variable_declaration", p)
    [] k = "Function" -> call("parse_function_declaration", p)
    [] k = "Class" -> call("parse_class_declaration", p)
    [] k = "Import" -> call("parse_import_declaration", p)
    [] k = "Export" -> call("parse_export_declaration", p)
    [] k = "Async" /\ p.peek.kind = "Function" -> call("parse_function_declaration", p)
    [] k = "LBrace" -> call("parse_block_statement", p)
    [] k = "If" -> call("parse_if_statement", p)
    [] k = "For" -> call("parse_for_statement", p)
    [] k = "While" -> call("parse_while_statement", p)
    [] k = "Do" -> call("parse_do_while_statement", p)
    [] k = "Switch" -> call("parse_switch_statement", p)
    [] k = "Return" -> call("parse_return_statement", p)
    [] k = "Throw" -> call("parse_throw_statement", p)
    [] k = "Try" -> call("parse_try_statement", p)
    [] k = "Break" -> call("parse_break_statement", p)
    [] k = "Continue" -> call("parse_continue_statement", p)
    [] k = "Semicolon" -> call("parse_empty_statement", p)
    [] OTHER -> call("parse_expression_statement", p)


\* the while loop of parse_expression: the operands of a sequence expression
RECURSIVE expression_loop(_)
expression_loop(p) ==
  IF at(p, "Comma")
  THEN LET q == call("parse_assignment_expression", call("skip_comments_and_newlines", call("advance", p)))
       IN IF Consumed(p, q) THEN expression_loop(q) ELSE Stalled(q)
  ELSE p

parse_expression(p) ==
  CHOOSE r \in {expression_loop(q) : q \in {parse_assignment_expression(p)}} : TRUE

parse_arrow_body(p) ==
  IF at(p, "LBrace") THEN call("parse_block_statement", p) ELSE call("parse_assignment_expression", p)

\* the assignment operators matched in parse_assignment_expression
AssignmentOps ==
  {"Eq", "PlusEq", "MinusEq", "StarEq", "SlashEq", "PercentEq", "StarStarEq",
   "LtLtEq", "GtGtEq", "GtGtGtEq", "AmpEq", "PipeEq", "CaretEq", "AmpAmpEq",
   "PipePipeEq", "QuestionQuestionEq"}

\* the while loop of parse_logical_or_expression
RECURSIVE logical_or_loop(_, _)
logical_or_loop(p, start) ==
  IF p.cur.kind \in {"PipePipe", "QuestionQuestion"}
  THEN LET q == call("parse_logical_and_expression", call("skip_comments_and_newlines", call("advance", p)))
           r == Last(<<q, push(q, Node("LogicalExpression", start, q.cur.start))>>)
       IN IF Consumed(p, r) THEN logical_or_loop(r, start) ELSE Stalled(r)
  ELSE p

\* the while loop of parse_logical_and_expression
RECURSIVE logical_and_loop(_, _)
logical_and_loop(p, start) ==
  IF p.cur.kind \in {"AmpAmp"}
  THEN LET q == call("parse_bitwise_or_expression", call("skip_comments_and_newlines", call("advance", p)))
           r == Last(<<q, push(q, Node("LogicalExpression", start, q.cur.start))>>)
       IN IF Consumed(p, r) THEN logical_and_loop(r, start) ELSE Stalled(r)
  ELSE p

\* the while loop of parse_bitwise_or_expression
RECURSIVE bitwise_or_loop(_, _)
bitwise_or_loop(p, start) ==
  IF p.cur.kind \in {"Pipe"}
  THEN LET q == call("parse_bitwise_xor_expression", call("skip_comments_and_newlines", call("advance", p)))
           r == Last(<<q, push(q, Node("BinaryExpression", start, q.cur.start))>>)
       IN IF Consumed(p, r) THEN bitwise_or_loop(r, start) ELSE Stalled(r)
  ELSE p

\* the while loop of parse_bitwise_xor_expression
RECURSIVE bitwise_xor_loop(_, _)
bitwise_xor_loop(p, start) ==
  IF p.cur.kind \in {"Caret"}
  THEN LET q == call("parse_bitwise_and_expression", call("skip_comments_and_newlines", call("advance", p)))
           r == Last(<<q, push(q, Node("BinaryExpression", start, q.cur.start))>>)
       IN IF Consumed(p, r) THEN bitwise_xor_loop(r, start) ELSE Stalled(r)
  ELSE p

\* the while loop of parse_bitwise_and_expression
RECURSIVE bitwise_and_loop(_, _)
bitwise_and_loop(p, start) ==
  IF p.cur.kind \in {"Amp"}
  THEN LET q == call("parse_equality_expression", call("skip_comments_and_newlines", call("advance", p)))
           r == Last(<<q, push(q, Node("BinaryExpression", start, q.cur.start))>>)
       IN IF Consumed(p, r) THEN bitwise_and_loop(r, start) ELSE Stalled(r)
  ELSE p

\* the while loop of parse_equality_expression
RECURSIVE equality_loop(_, _)
equality_loop(p, start) ==
  IF p.cur.kind \in {"EqEq", "BangEq", "EqEqEq", "BangEqEq"}
  THEN LET q == call("parse_relational_expression", call("skip_comments_and_newlines", call("advance", p)))
           r == Last(<<q, push(q, Node("BinaryExpression", start, q.cur.start))>>)
       IN IF Consumed(p, r) THEN equality_loop(r, start) ELSE Stalled(r)
  ELSE p

\* the while loop of parse_relational_expression
RECURSIVE relational_loop(_, _)
relational_loop(p, start) ==
  IF p.cur.kind \in {"Lt", "Gt", "LtEq", "GtEq", "Instanceof", "In"}
  THEN LET q == call("parse_shift_expression", call("skip_comments_and_newlines", call("advance", p)))
           r == Last(<<q, push(q, Node("BinaryExpression", start, q.cur.start))>>)
       IN IF Consumed(p, r) THEN relational_loop(r, start) ELSE Stalled(r)
  ELSE p

\* the while loop of parse_shift_expression
RECURSIVE shift_loop(_, _)
shift_loop(p, start) ==
  IF p.cur.kind \in {"LtLt", "GtGt", "GtGtGt"}
  THEN LET q == call("parse_additive_expression", call("skip_comments_and_newlines", call("advance", p)))
           r == Last(<<q, push(q, Node("BinaryExpression", start, q.cur.start))>>)
       IN IF Consumed(p, r) THEN shift_loop(r, start) ELSE Stalled(r)
  ELSE p

\* the while loop of parse_additive_expression
RECURSIVE additive_loop(_, _)
additive_loop(p, start) ==
  IF p.cur.kind \in {"Plus", "Minus"}
  THEN LET q == call("parse_multiplicative_expression", call("skip_comments_and_newlines", call("advance", p)))
           r == Last(<<q, push(q, Node("BinaryExpression", start, q.cur.start))>>)
       IN IF Consumed(p, r) THEN additive_loop(r, start) ELSE Stalled(r)
  ELSE p

\* the while loop of parse_multiplicative_expression
RECURSIVE multiplicative_loop(_, _)
multiplicative_loop(p, start) ==
  IF p.cur.kind \in {"Star", "Slash", "Percent"}
  THEN LET q == call("parse_exponentiation_expression", call("skip_comments_and_newlines", call("advance", p)))
           r == Last(<<q, push(q, Node("BinaryExpression", start, q.cur.start))>>)
       IN IF Consumed(p, r) THEN multiplicative_loop(r, start) ELSE Stalled(r)
  ELSE p

\* an exponentiation that takes its operands one by one, as the levels below it do
RECURSIVE exponentiation_left(_, _)
exponentiation_left(q, start) ==
  IF at(q, "StarStar")
  THEN LET p2 == call("parse_unary_expression",
                   call("skip_comments_and_newlines", call("advance", q)))
           r == push(p2, Node("BinaryExpression", start, p2.cur.start))
       IN IF Consumed(q, r) THEN exponentiation_left(r, start) ELSE Stalled(r)
  ELSE q

\* parse_exponentiation_expression from the state q its operand has left
exponentiation_tail(q, start) ==
  IF at(q, "StarStar")
  THEN LET p2 == call("parse_exponentiation_expression",
                   call("skip_comments_and_newlines", call("advance", q)))
       IN push(p2, Node("BinaryExpression", start, p2.cur.start))
  ELSE q

\* parse_conditional_expression from the state q its condition has left
conditional_tail(q, start) ==
  IF at(q, "Question")
  THEN LET p2 == call("parse_assignment_expression", call("skip_comments_and_newlines", call("advance", q)))
           p3 == call("skip_comments_and_newlines",
                   expect(call("skip_comments_and_newlines", p2), "Colon"))
           p4 == Last(<<p2, p3, call("parse_assignment_expression", p3)>>)
       IN push(p4, Node("ConditionalExpression", start, p4.cur.start))
  ELSE q

\* parse_assignment_expression from the state q its left side has left
assignment_tail(q, start) ==
  IF q.cur.kind \in AssignmentOps
  THEN LET p2 == call("parse_assignment_expression",
                   call("skip_comments_and_newlines", call("advance", q)))
       IN push(p2, Node("AssignmentExpression", start, p2.cur.start))
  ELSE q

\* The levels of the expression grammar between an assignment and a unary
\* expression.  Each of them calls the level below it for its first operand
\* before it looks at a token, so the first method that reads the input is
\* parse_unary_expression, and the levels go on from the state q it has left,
\* the innermost first, all of them with the start of the token the descent
\* began at.  <level>_levels(q, start) holds the state that level returns.
exponentiation_levels(q, start) == {exponentiation_tail(q, start)}

multiplicative_levels(q, start) ==
  {multiplicative_loop(x, start) : x \in exponentiation_levels(q, start)}

additive_levels(q, start) ==
  {additive_loop(x, start) : x \in multiplicative_levels(q, start)}

shift_levels(q, start) ==
  {shift_loop(x, start) : x \in additive_levels(q, start)}

relational_levels(q, start) ==
  {relational_loop(x, start) : x \in shift_levels(q, start)}

equality_levels(q, start) ==
  {equality_loop(x, start) : x \in relational_levels(q, start)}

bitwise_and_levels(q, start) ==
  {bitwise_and_loop(x, start) : x \in equality_levels(q, start)}

bitwise_xor_levels(q, start) ==
  {bitwise_xor_loop(x, start) : x \in bitwise_and_levels(q, start)}

bitwise_or_levels(q, start) ==
  {bitwise_or_loop(x, start) : x \in bitwise_xor_levels(q, start)}

logical_and_levels(q, start) ==
  {logical_and_loop(x, start) : x \in bitwise_or_levels(q, start)}

logical_or_levels(q, start) ==
  {logical_or_loop(x, start) : x \in logical_and_levels(q, start)}

conditional_levels(q, start) ==
  {conditional_tail(x, start) : x \in logical_or_levels(q, start)}

assignment_levels(q, start) ==
  {assignment_tail(x, start) : x \in conditional_levels(q, start)}

parse_assignment_expression(p) ==
  LET start == p.cur.start IN
  IF at(p, "Identifier") /\ p.peek.kind = "Arrow"
  THEN LET p1 == call("skip_comments_and_newlines", call("advance", call("parse_identifier", p)))
           p2 == Last(<<p1, call("parse_arrow_body", p1)>>)
       IN push(p2, Node("ArrowFunctionExpression", start, p2.cur.start))
  ELSE CHOOSE r \in UNION {assignment_levels(q, start) : q \in {parse_unary_expression(p)}} : TRUE

parse_conditional_expression(p) ==
  LET start == p.cur.start
  IN CHOOSE r \in UNION {conditional_levels(q, start) : q \in {parse_unary_expression(p)}} : TRUE

parse_logical_or_expression(p) ==
  LET start == p.cur.start
  IN CHOOSE r \in UNION {logical_or_levels(q, start) : q \in {parse_unary_expression(p)}} : TRUE

parse_logical_and_expression(p) ==
  LET start == p.cur.start
  IN CHOOSE r \in UNION {logical_and_levels(q, start) : q \in {parse_unary_expression(p)}} : TRUE

parse_bitwise_or_expression(p) ==
  LET start == p.cur.start
  IN CHOOSE r \in UNION {bitwise_or_levels(q, start) : q \in {parse_unary_expression(p)}} : TRUE

parse_bitwise_xor_expression(p) ==
  LET start == p.cur.start
  IN CHOOSE r \in UNION {bitwise_xor_levels(q, start) : q \in {parse_unary_expression(p)}} : TRUE

parse_bitwise_and_expression(p) ==
  LET start == p.cur.start
  IN CHOOSE r \in UNION {bitwise_and_levels(q, start) : q \in {parse_unary_expression(p)}} : TRUE

parse_equality_expression(p) ==
  LET start == p.cur.start
  IN CHOOSE r \in UNION {equality_levels(q, start) : q \in {parse_unary_expression(p)}} : TRUE

parse_relational_expression(p) ==
  LET start == p.cur.start
  IN CHOOSE r \in UNION {relational_levels(q, start) : q \in {parse_unary_expression(p)}} : TRUE

parse_shift_expression(p) ==
  LET start == p.cur.start
  IN CHOOSE r \in UNION {shift_levels(q, start) : q \in {parse_unary_expression(p)}} : TRUE

parse_additive_expression(p) ==
  LET start == p.cur.start
  IN CHOOSE r \in UNION {additive_levels(q, start) : q \in {parse_unary_expression(p)}} : TRUE

parse_multiplicative_expression(p) ==
  LET start == p.cur.start
  IN CHOOSE r \in UNION {multiplicative_levels(q, start) : q \in {parse_unary_expression(p)}} : TRUE

parse_exponentiation_expression(p) ==
  LET start == p.cur.start
  IN CHOOSE r \in UNION {exponentiation_levels(q, start) : q \in {parse_unary_expression(p)}} : TRUE

parse_spread_element(p) ==
  LET start == p.cur.start
      p1 == call("parse_assignment_expression", call("advance", p))
  IN push(p1, Node("SpreadElement", start, p1.cur.start))

\* the while loop of parse_arguments
RECURSIVE arguments_loop(_)
arguments_loop(p) ==
  IF at(p, "RParen") \/ at(p, "Eof") THEN p
  ELSE CHOOSE x \in
         {IF ~at(q2, "Comma") THEN q2
          ELSE LET r == call("skip_comments_and_newlines", call("advance", q2))
               IN IF Consumed(p, r) THEN arguments_loop(r) ELSE Stalled(r) :
          q2 \in {call("skip_comments_and_newlines", q1) :
                   q1 \in {IF at(p, "DotDotDot") THEN call("parse_spread_element", p)
                            ELSE parse_assignment_expression(p)}}} : TRUE

parse_arguments(p) ==
  CHOOSE r \in
    {expect(q, "RParen") :
       q \in {arguments_loop(p1) :
                p1 \in {call("skip_comments_and_newlines", expect(p, "LParen"))}}} : TRUE

\* the arm of parse_primary_expression for a token no expression starts with:
\* the default arm of parse_primary_expression without its advance()
keep_unknown_token(p) == p

\* the default arm of parse_primary_expression: "Skip unknown token"
skip_unknown_token(p) == call("advance", p)

parse_identifier(p) ==
  LET start == p.cur.start
      p1 == call("advance", p)
  IN push(p1, Node("Identifier", start, p1.cur.start))

parse_template_literal(p) ==
  LET start == p.cur.start
      p1 == call("advance", p)
  IN push(p1, Node("TemplateLiteral", start, p1.cur.start))

parse_primary_expression(p) ==
  LET start == p.cur.start
      k == p.cur.kind
  IN
  CASE k = "Identifier" -> call("parse_identifier", p)
    [] k \in {"Number", "BigInt", "String", "True", "False", "Null"} ->
         LET p1 == call("advance", p) IN push(p1, Node("Literal", start, p1.cur.start))
    [] k = "Template" -> call("parse_template_literal", p)
    [] k = "This" ->
         LET p1 == call("advance", p) IN push(p1, Node("ThisExpression", start, p1.cur.start))
    [] k = "Super" ->
         LET p1 == call("advance", p) IN push(p1, Node("Super", start, p1.cur.start))
    [] k = "LParen" ->
         CHOOSE r \in
           {expect(call("skip_comments_and_newlines", p1), "RParen") :
              p1 \in {parse_expression(call("skip_comments_and_newlines", call("advance", p)))}} : TRUE
    [] k = "LBracket" -> parse_array_expression(p)
    [] k = "LBrace" -> parse_object_expression(p)
    [] k = "Function" -> call("parse_function_expression", p)
    [] k = "Async" ->
         IF p.peek.kind = "Function" THEN call("parse_function_expression", p)
         ELSE call("parse_identifier", call("skip_comments_and_newlines", call("advance", p)))
    [] k = "Class" -> call("parse_class_expression", p)
    [] k = "Yield" ->
         LET p1 == call("skip_comments_and_newlines", call("advance", p))
             p2 == Last(<<p1,
                   IF ~(p1.cur.kind \in {"Semicolon", "RBrace", "RParen", "RBracket",
                                         "Comma", "Colon"})
                    THEN call("parse_assignment_expression", p1) ELSE p1>>)
         IN push(p2, Node("YieldExpression", start, p2.cur.start))
    [] OTHER -> skip_unknown_token(p)

parse_member_expression(p) ==
  LET start == p.cur.start IN
  IF at(p, "New")
  THEN LET p1 == call("parse_member_expression", call("skip_comments_and_newlines", call("advance", p)))
           p2 == Last(<<p1, IF at(p1, "LParen") THEN call("parse_arguments", p1) ELSE p1>>)
       IN push(p2, Node("NewExpression", start, p2.cur.start))
  ELSE parse_primary_expression(p)

\* the loop { match ... } of parse_call_expression
RECURSIVE call_loop(_, _)
call_loop(p, start) ==
  LET k == p.cur.kind IN
  IF k \in {"LParen", "LBracket", "Dot", "QuestionDot", "Template"}
  THEN CHOOSE x \in
         {IF Consumed(p, r) THEN call_loop(r, start) ELSE Stalled(r) :
          r \in {
             CASE k = "LParen" ->
                    CHOOSE y \in {push(q, Node("CallExpression", start, q.cur.start)) :
                                  q \in {parse_arguments(p)}} : TRUE
               [] k = "LBracket" ->
                    CHOOSE y \in
                      {push(q2, with_flags(Node("MemberExpression", start, q2.cur.start),
                                           COMPUTED)) :
                       q2 \in {expect(call("skip_comments_and_newlines", q1), "RBracket") :
                                q1 \in {parse_expression(call("skip_comments_and_newlines",
                                                              call("advance", p)))}}} : TRUE
               [] k \in {"Dot", "QuestionDot"} ->
                    LET q == call("parse_identifier", call("skip_comments_and_newlines", call("advance", p)))
                    IN push(q, with_flags(Node("MemberExpression", start, q.cur.start),
                                          IF k = "QuestionDot" THEN 1 ELSE 0))
               [] k = "Template" ->
                    LET q == call("parse_template_literal", p)
                    IN push(q, Node("TaggedTemplateExpression", start, q.cur.start))}} : TRUE
  ELSE p

parse_call_expression(p) ==
  LET start == p.cur.start
  IN CHOOSE r \in {call_loop(q, start) : q \in {parse_member_expression(p)}} : TRUE

\* parse_postfix_expression from the state q its operand has left
postfix_tail(q, start) ==
  IF q.cur.kind \in {"PlusPlus", "MinusMinus"}
  THEN LET p2 == call("advance", q)
       IN push(p2, with_flags(Node("UpdateExpression", start, p2.cur.start), 1))
  ELSE q

\* parse_call_expression is the first thing parse_postfix_expression does, and
\* parse_member_expression the first thing parse_call_expression does
parse_postfix_expression(p) ==
  LET start == p.cur.start
  IN CHOOSE r \in {postfix_tail(x, start) :
                     x \in {call_loop(q, start) : q \in {parse_member_expression(p)}}} : TRUE

parse_unary_expression(p) ==
  LET start == p.cur.start
      k == p.cur.kind
  IN
  CASE k \in {"Bang", "Tilde", "Plus", "Minus", "Typeof", "Void", "Delete"} ->
         LET p1 == call("parse_unary_expression", call("skip_comments_and_newlines", call("advance", p)))
         IN push(p1, Node("UnaryExpression", start, p1.cur.start))
    [] k \in {"PlusPlus", "MinusMinus"} ->
         LET p1 == call("parse_unary_expression", call("skip_comments_and_newlines", call("advance", p)))
         IN push(p1, Node("UpdateExpression", start, p1.cur.start))
    [] k = "Await" ->
         LET p1 == call("parse_unary_expression", call("skip_comments_and_newlines", call("advance", p)))
         IN push(p1, Node("AwaitExpression", start, p1.cur.start))
    [] OTHER -> parse_postfix_expression(p)

\* the while loop of parse_array_expression
RECURSIVE array_elements_loop(_, _)
array_elements_loop(p, count) ==
  IF at(p, "RBracket") \/ at(p, "Eof") THEN LoopRes(p, count)
  ELSE CHOOSE x \in
         {IF ~at(q2, "Comma") THEN LoopRes(q2, count + 1)
          ELSE LET r == call("skip_comments_and_newlines", call("advance", q2))
               IN IF Consumed(p, r) THEN array_elements_loop(r, count + 1)
                  ELSE LoopRes(Stalled(r), count + 1) :
          q2 \in {call("skip_comments_and_newlines", q1) :
                   q1 \in {IF at(p, "Comma") THEN call("advance", p)
                            ELSE IF at(p, "DotDotDot") THEN call("parse_spread_element", p)
                            ELSE parse_assignment_expression(p)}}} : TRUE

parse_array_expression(p) ==
  LET start == p.cur.start
  IN CHOOSE r \in
       {LET p1 == expect(l.p, "RBracket")
        IN push(p1, with_extra(Node("ArrayExpression", start, p1.cur.start), l.count)) :
        l \in {array_elements_loop(q, 0) :
                 q \in {call("skip_comments_and_newlines", call("advance", p))}}} : TRUE

parse_object_property(p) ==
  LET start == p.cur.start
      colonOrParen(q) == q.peek.kind = "Colon" \/ q.peek.kind = "LParen"
      p1 == IF (at(p, "Get") \/ at(p, "Set")) /\ ~colonOrParen(p)
            THEN call("skip_comments_and_newlines", call("advance", p)) ELSE p
      isAsync == at(p1, "Async") /\ ~colonOrParen(p1)
      p2 == IF isAsync THEN call("skip_comments_and_newlines", call("advance", p1)) ELSE p1
      isGen == at(p2, "Star")
      p3 == IF isGen THEN call("skip_comments_and_newlines", call("advance", p2)) ELSE p2
      isComputed == at(p3, "LBracket")
      p4 == IF isComputed
            THEN expect(call("parse_expression", call("advance", p3)), "RBracket")
            ELSE call("parse_identifier", p3)
      p5 == call("skip_comments_and_newlines", p4)
      isMethod == at(p5, "LParen")
      isPair == ~isMethod /\ at(p5, "Colon")
      p6 == Last(<<p1, p2, p3, p4, p5,
            IF isMethod
             THEN call("parse_block_statement", 
                   call("skip_comments_and_newlines", call("parse_function_params", p5)))
             ELSE IF isPair
             THEN call("parse_assignment_expression", call("skip_comments_and_newlines", call("advance", p5)))
             ELSE p5>>)
      flags == BitOr(BitOr(IF isAsync THEN ASYNC ELSE 0, IF isGen THEN GENERATOR ELSE 0),
                     BitOr(IF isComputed THEN COMPUTED ELSE 0,
                           IF ~isMethod /\ ~isPair THEN SHORTHAND ELSE 0))
  IN push(p6, with_flags(Node("Property", start, p6.cur.start), flags))

\* the while loop of parse_object_expression
RECURSIVE object_properties_loop(_, _)
object_properties_loop(p, count) ==
  IF at(p, "RBrace") \/ at(p, "Eof") THEN LoopRes(p, count)
  ELSE CHOOSE x \in
         {IF ~at(q2, "Comma") THEN LoopRes(q2, count + 1)
          ELSE LET r == call("skip_comments_and_newlines", call("advance", q2))
               IN IF Consumed(p, r) THEN object_properties_loop(r, count + 1)
                  ELSE LoopRes(Stalled(r), count + 1) :
          q2 \in {call("skip_comments_and_newlines", q1) :
                   q1 \in {IF at(p, "DotDotDot") THEN call("parse_spread_element", p)
                            ELSE call("parse_object_property", p)}}} : TRUE

parse_object_expression(p) ==
  LET start == p.cur.start
  IN CHOOSE r \in
       {LET p1 == expect(l.p, "RBrace")
        IN push(p1, with_extra(Node("ObjectExpression", start, p1.cur.start), l.count)) :
        l \in {object_properties_loop(q, 0) :
                 q \in {call("skip_comments_and_newlines", call("advance", p))}}} : TRUE

parse_function_expression(p) ==
  LET start == p.cur.start
      isAsync == at(p, "Async")
      p1 == IF isAsync THEN call("skip_comments_and_newlines", call("advance", p)) ELSE p
      p2 == call("skip_comments_and_newlines", expect(p1, "Function"))
      isGen == at(p2, "Star")
      p3 == IF isGen THEN call("skip_comments_and_newlines", call("advance", p2)) ELSE p2
      flags == BitOr(IF isAsync THEN ASYNC ELSE 0, IF isGen THEN GENERATOR ELSE 0)
      p4 == IF at(p3, "Identifier") THEN call("parse_identifier", p3) ELSE p3
      p5 == call("parse_function_params", call("skip_comments_and_newlines", p4))
      p6 == Last(<<p1, p2, p3, p4, p5,
            call("parse_block_statement", call("skip_comments_and_newlines", p5))>>)
  IN push(p6, with_flags(Node("FunctionExpression", start, p6.cur.start), flags))

parse_class_expression(p) ==
  LET start == p.cur.start
      p1 == class_tail(p)
  IN push(p1, Node("ClassExpression", start, p1.cur.start))

\* the while loop of parse_program: one top-level statement per iteration
RECURSIVE program_loop(_)
program_loop(p) ==
  IF at(p, "Eof") THEN p
  ELSE LET q == call("skip_comments_and_newlines", call("parse_statement_or_declaration", p))
       IN IF Consumed(p, q) THEN program_loop(q) ELSE Stalled(q)

\* parse_program up to the end of its loop, before the root is inserted
program_body(p) == program_loop(call("skip_comments_and_newlines", p))

\* Vec::insert(index, element)
Insert(s, index, e) ==
  SubSeq(s, 1, index) \o << e >> \o SubSeq(s, index + 1, Len(s))

\* the root pushed behind the other nodes instead of inserted before them
append_root(nodes, root) == Append(nodes, root)

\* where parse_program puts the root: self.nodes.insert(0, ...)
insert_root(nodes, root) == Insert(nodes, 0, root)

\* the span parse_program gives the root, from the first and the last token
program_span(first, last) == [start |-> first.start, end |-> last.end]

parse_program(p) ==
  LET q == program_body(p)
      span == program_span(p.cur, q.cur)
      root == with_extra(Node("Program", span.start, span.end), Len(q.nodes))
  IN [q EXCEPT !.nodes = insert_root(q.nodes, root)]

\* the methods of impl Parser that call one another
call(method, p) ==
  CASE method = "advance" -> advance(p)
    [] method = "skip_comments_and_newlines" -> skip_comments_and_newlines(p)
    [] method = "parse_variable_declarator" -> parse_variable_declarator(p)
    [] method = "parse_variable_declaration" -> parse_variable_declaration(p)
    [] method = "parse_rest_element" -> parse_rest_element(p)
    [] method = "parse_array_pattern" -> parse_array_pattern(p)
    [] method = "parse_property_pattern" -> parse_property_pattern(p)
    [] method = "parse_object_pattern" -> parse_object_pattern(p)
    [] method = "parse_binding_pattern" -> parse_binding_pattern(p)
    [] method = "parse_function_declaration" -> parse_function_declaration(p)
    [] method = "parse_function_params" -> parse_function_params(p)
    [] method = "parse_class_declaration" -> parse_class_declaration(p)
    [] method = "parse_class_member" -> parse_class_member(p)
    [] method = "parse_class_body" -> parse_class_body(p)
    [] method = "parse_import_declaration" -> parse_import_declaration(p)
    [] method = "parse_export_declaration" -> parse_export_declaration(p)
    [] method = "parse_block_statement" -> parse_block_statement(p)
    [] method = "parse_if_statement" -> parse_if_statement(p)
    [] method = "parse_for_statement" -> parse_for_statement(p)
    [] method = "parse_while_statement" -> parse_while_statement(p)
    [] method = "parse_do_while_statement" -> parse_do_while_statement(p)
    [] method = "parse_switch_statement" -> parse_switch_statement(p)
    [] method = "parse_return_statement" -> parse_return_statement(p)
    [] method = "parse_throw_statement" -> parse_throw_statement(p)
    [] method = "parse_try_statement" -> parse_try_statement(p)
    [] method = "parse_break_statement" -> parse_break_statement(p)
    [] method = "parse_continue_statement" -> parse_continue_statement(p)
    [] method = "parse_empty_statement" -> parse_empty_statement(p)
    [] method = "parse_expression_statement" -> parse_expression_statement(p)
    [] method = "parse_statement_or_declaration" -> parse_statement_or_declaration(p)
    [] method = "parse_expression" -> parse_expression(p)
    [] method = "parse_arrow_body" -> parse_arrow_body(p)
    [] method = "parse_assignment_expression" -> parse_assignment_expression(p)
    [] method = "parse_conditional_expression" -> parse_conditional_expression(p)
    [] method = "parse_logical_or_expression" -> parse_logical_or_expression(p)
    [] method = "parse_logical_and_expression" -> parse_logical_and_expression(p)
    [] method = "parse_bitwise_or_expression" -> parse_bitwise_or_expression(p)
    [] method = "parse_bitwise_xor_expression" -> parse_bitwise_xor_expression(p)
    [] method = "parse_bitwise_and_expression" -> parse_bitwise_and_expression(p)
    [] method = "parse_equality_expression" -> parse_equality_expression(p)
    [] method = "parse_relational_expression" -> parse_relational_expression(p)
    [] method = "parse_shift_expression" -> parse_shift_expression(p)
    [] method = "parse_additive_expression" -> parse_additive_expression(p)
    [] method = "parse_multiplicative_expression" -> parse_multiplicative_expression(p)
    [] method = "parse_exponentiation_expression" -> parse_exponentiation_expression(p)
    [] method = "parse_spread_element" -> parse_spread_element(p)
    [] method = "parse_arguments" -> parse_arguments(p)
    [] method = "parse_identifier" -> parse_identifier(p)
    [] method = "parse_template_literal" -> parse_template_literal(p)
    [] method = "parse_primary_expression" -> parse_primary_expression(p)
    [] method = "parse_member_expression" -> parse_member_expression(p)
    [] method = "parse_call_expression" -> parse_call_expression(p)
    [] method = "parse_postfix_expression" -> parse_postfix_expression(p)
    [] method = "parse_unary_expression" -> parse_unary_expression(p)
    [] method = "parse_array_expression" -> parse_array_expression(p)
    [] method = "parse_object_property" -> parse_object_property(p)
    [] method = "parse_object_expression" -> parse_object_expression(p)
    [] method = "parse_function_expression" -> parse_function_expression(p)
    [] method = "parse_class_expression" -> parse_class_expression(p)
    [] method = "parse_program" -> parse_program(p)

\* a count of the nodes pushed, the root left out
parse_count_without_root(p) == Len(call("parse_program", p).nodes) - 1

\* Parser::parse_count
parse_count(p) == Len(call("parse_program", p).nodes)

\* std::mem::size_of::<Node>()
NODE_SIZE == 16

\* the four bytes of v, most significant first
to_be_bytes(v) ==
  << (v \div 16777216) % 256, (v \div 65536) % 256, (v \div 256) % 256, v % 256 >>

\* u32::to_le_bytes
to_le_bytes(v) ==
  << v % 256, (v \div 256) % 256, (v \div 65536) % 256, (v \div 16777216) % 256 >>

\* buf[from..from + bytes.len()].copy_from_slice(bytes)
copy_from_slice(buf, from, bytes) ==
  SubSeq(buf, 1, from) \o bytes \o SubSeq(buf, from + Len(bytes) + 1, Len(buf))

\* the body of the for loop of parse_binary: node written at offset
write_node(buf, offset, node) ==
  LET b0 == copy_from_slice(buf, offset, << NodeKindTag(node.kind) >>)
      b1 == copy_from_slice(b0, offset + 1, << node.flags >>)
      b2 == copy_from_slice(b1, offset + 4, to_le_bytes(node.start))
      b3 == copy_from_slice(b2, offset + 8, to_le_bytes(node.end))
  IN copy_from_slice(b3, offset + 12, to_le_bytes(node.extra))

\* the for loop of parse_binary over self.nodes.iter().enumerate(), from index i
RECURSIVE write_nodes(_, _, _)
write_nodes(buf, nodes, i) ==
  IF i >= Len(nodes) THEN buf
  ELSE CHOOSE r \in {write_nodes(b, nodes, i + 1) :
                       b \in {write_node(buf, 4 + i * NODE_SIZE, nodes[i + 1])}} : TRUE

\* the serialisation of parse_binary: header, then the nodes
encode_nodes(nodes) ==
  LET node_count == Len(nodes)
      zeroed == [i \in 1..(4 + node_count * NODE_SIZE) |-> 0]
      buf == copy_from_slice(zeroed, 0, to_le_bytes(node_count))
  IN write_nodes(buf, nodes, 0)

\* Parser::parse_binary: the parser after parse_program and the buffer returned
parse_binary(p) ==
  LET q == call("parse_program", p)
  IN [parser |-> q, buf |-> encode_nodes(q.nodes)]


(***************************************************************************)
(* The arena tree (crates/core/src/tree.rs, position.rs).  An Option<T> is  *)
(* the set of its values: empty for None, a singleton for Some(v).  The     *)
(* creation and modification timestamps of the metadata are left out.       *)
(***************************************************************************)
Nothing == {}

Some(v) == {v}

Position(line, column, offset) == [line |-> line, column |-> column, offset |-> offset]

from_coords(start_line, start_column, start_offset, end_line, end_column, end_offset) ==
  [start |-> Position(start_line, start_column, start_offset),
   end |-> Position(end_line, end_column, end_offset)]

\* Node::new
NodeNew(id, node_type) ==
  [id |-> id, node_type |-> node_type, parent |-> Nothing, children |-> << >>,
   span |-> Nothing, data |-> Nothing]

with_span(node, span) == [node EXCEPT !.span = Some(span)]

with_data(node, data) == [node EXCEPT !.data = Some(data)]

\* Tree::new
TreeNew(language, source) ==
  [meta |-> [language |-> language, source |-> source], root |-> 0,
   nodes |-> << NodeNew(0, "root") >>]

root_id(tree) == tree.root

node_count(tree) == Len(tree.nodes)

\* an add_node that stores the node with the id its caller gave it
add_node_keeping_id(tree, node) == [tree EXCEPT !.nodes = Append(@, node)]

\* Tree::add_node: the tree after; the id returned is node_count(tree) before
add_node(tree, node) == [tree EXCEPT !.nodes = Append(@, [node EXCEPT !.id = Len(tree.nodes)])]

\* SynthError::InvalidNodeId
InvalidNodeId(id) == [error |-> "InvalidNodeId", id |-> id]

\* a lookup that finds the root and no other node
get_node_root_only(tree, id) ==
  IF id < 1 THEN [ok |-> Some(tree.nodes[id + 1]), err |-> Nothing]
  ELSE [ok |-> Nothing, err |-> Some(InvalidNodeId(id))]

\* Tree::get_node / Tree::get_node_mut: Ok exactly when the id is in the arena
get_node(tree, id) ==
  IF id < Len(tree.nodes) THEN [ok |-> Some(tree.nodes[id + 1]), err |-> Nothing]
  ELSE [ok |-> Nothing, err |-> Some(InvalidNodeId(id))]

\* Tree::add_child: the tree after the call and the error it returned, if any
add_child(tree, parent_id, child_id) ==
  IF get_node(tree, child_id).err # Nothing
  THEN [tree |-> tree, err |-> get_node(tree, child_id).err]
  ELSE LET t1 == [tree EXCEPT !.nodes[child_id + 1].parent = Some(parent_id)]
       IN IF get_node(t1, parent_id).err # Nothing
          THEN [tree |-> t1, err |-> get_node(t1, parent_id).err]
          ELSE [tree |-> [t1 EXCEPT !.nodes[parent_id + 1].children = Append(@, child_id)],
                err |-> Nothing]

\* serde's Serialize of an Option field without skip_serializing_if
serialize_option(o) == IF o = Nothing THEN "null" ELSE CHOOSE v \in o : TRUE

\* the members a struct adds for a field with skip_serializing_if = "Option::is_none"
skip_if_none(key, o) == IF o = Nothing THEN << >> ELSE << << key, CHOOSE v \in o : TRUE >> >>

\* the derived Serialize of Node: the members of the JSON object, in order
serialize_node(node) ==
  << << "id", node.id >>, << "type", node.node_type >>,
     << "parent", serialize_option(node.parent) >>, << "children", node.children >> >>
  \o skip_if_none("span", node.span) \o skip_if_none("data", node.data)

\* the derived Serialize of Tree (the timestamps of meta are not modelled)
serialize_tree(tree) ==
  << << "meta", tree.meta >>, << "root", tree.root >>,
     << "nodes", [i \in 1..Len(tree.nodes) |-> serialize_node(tree.nodes[i])] >> >>

(***************************************************************************)
(* The Markdown block scanner (parser_v2.rs).  A scanner state is the       *)
(* record                                                                   *)
(*   pos   : MarkdownParserV2.pos                                           *)
(*   line  : MarkdownParserV2.line                                          *)
(*   stall : a block scan left the cursor where it was (the code would      *)
(*           loop for ever from there)                                      *)
(* and a scan_* operator returns the state after and the Option it returns. *)
(***************************************************************************)
ROOT == 0
HEADING == 1
PARAGRAPH == 2
CODE == 3
THEMATIC_BREAK == 4
BLOCKQUOTE == 5
LIST_ITEM == 6

BINARY_NODE_SIZE == 24

\* BinaryNode::default()
BinaryNodeDefault ==
  [node_type |-> 0, flags |-> 0, parent |-> 0, text_start |-> 0, text_len |-> 0,
   span_start |-> 0, span_end |-> 0]

\* casts to the field widths
as_u8(v) == v % 256

\* v mod 2^32, taken on the two 16-bit halves
as_u32(v) == (v % 65536) + 65536 * ((v \div 65536) % 65536)

\* a parser kept from the call before, its cursor where that call left it
MarkdownParserV2Kept ==
  [pos |-> IF "md.parse" \in done THEN Len(src) ELSE 0, line |-> 1, stall |-> FALSE]

MarkdownParserV2New == [pos |-> 0, line |-> 1, stall |-> FALSE]

Scan(p, node) == [p |-> p, node |-> node]

Max(a, b) == IF a >= b THEN a ELSE b

Min(a, b) == IF a <= b THEN a ELSE b

saturating_sub(a, b) == IF a >= b THEN a - b ELSE 0

\* &self.src[start..end]
text_slice(start, end) == SubSeq(src, start + 1, end)

\* memchr_iter(b'\n', &self.bytes[from..to]).count()
count_newlines(from, to) == Cardinality({i \in from..(to - 1) : byte(i) = "\n"})

WhiteSpace == {" ", "\t", "\n", "\r"}

\* str::trim
RECURSIVE trim_start(_)
trim_start(s) ==
  IF Len(s) > 0 /\ s[1] \in WhiteSpace THEN trim_start(SubSeq(s, 2, Len(s))) ELSE s

RECURSIVE trim_end(_)
trim_end(s) ==
  IF Len(s) > 0 /\ s[Len(s)] \in WhiteSpace THEN trim_end(SubSeq(s, 1, Len(s) - 1)) ELSE s

trim(s) == trim_end(trim_start(s))

\* a scanner that does not step over the blanks in front of a block
keep_horizontal_space(p) == p

RECURSIVE skip_horizontal_space(_)
skip_horizontal_space(p) ==
  IF byte(p.pos) \in {" ", "\t"}
  THEN skip_horizontal_space([p EXCEPT !.pos = @ + 1])
  ELSE p

find_newline(p) == FindByte("\n", p.pos)

skip_to_newline(p) ==
  LET end == find_newline(p)
  IN IF end < SrcLen
     THEN [p EXCEPT !.pos = end + 1, !.line = @ + 1]
     ELSE [p EXCEPT !.pos = end]

is_code_fence(p) == byte(p.pos + 1) = Backtick /\ byte(p.pos + 2) = Backtick

\* the while loop of is_thematic_break
RECURSIVE thematic_break_loop(_, _, _)
thematic_break_loop(marker, i, count) ==
  IF i >= SrcLen THEN count >= 3
  ELSE IF byte(i) = marker THEN thematic_break_loop(marker, i + 1, count + 1)
  ELSE IF byte(i) \in {" ", "\t"} THEN thematic_break_loop(marker, i + 1, count)
  ELSE IF byte(i) = "\n" THEN count >= 3
  ELSE FALSE

is_thematic_break(p) ==
  IF byte(p.pos) \notin {"-", "*", "_"} THEN FALSE
  ELSE thematic_break_loop(byte(p.pos), p.pos, 0)

\* the while loop of is_ordered_list
RECURSIVE ordered_list_loop(_)
ordered_list_loop(i) ==
  IF i >= SrcLen THEN FALSE
  ELSE IF byte(i) \in Digit THEN ordered_list_loop(i + 1)
  ELSE IF byte(i) \in {".", ")"} THEN byte(i + 1) = " "
  ELSE FALSE

is_ordered_list(p) == ordered_list_loop(p.pos)

\* a count of the '#' characters that goes on to a seventh
RECURSIVE heading_depth_to_seven(_, _)
heading_depth_to_seven(p, depth) ==
  IF byte(p.pos) = "#" /\ depth < 7
  THEN heading_depth_to_seven([p EXCEPT !.pos = @ + 1], depth + 1)
  ELSE [p |-> p, depth |-> depth]

\* while self.current() == Some(b'#') && depth < 6 (both modes)
RECURSIVE heading_depth_loop(_, _)
heading_depth_loop(p, depth) ==
  IF byte(p.pos) = "#" /\ depth < 6
  THEN heading_depth_loop([p EXCEPT !.pos = @ + 1], depth + 1)
  ELSE [p |-> p, depth |-> depth]

\* the trailing-whitespace trim of a heading's text (both modes)
RECURSIVE heading_text_len(_, _)
heading_text_len(text_start, len) ==
  IF len > 0 /\ byte(text_start + len - 1) \in {" ", "\t"}
  THEN heading_text_len(text_start, len - 1)
  ELSE len

\* the loop of scan_paragraph_node and scan_paragraph_binary
RECURSIVE paragraph_loop(_)
paragraph_loop(p) ==
  LET q == skip_to_newline(p)
  IN IF q.pos >= SrcLen THEN q
     ELSE IF byte(q.pos) \in {"\n", "#", ">", "-", "*", "+", Backtick} THEN q
     ELSE IF byte(q.pos) \in Digit /\ is_ordered_list(q) THEN q
     ELSE IF q.pos > p.pos THEN paragraph_loop(q) ELSE Stalled(q)

\* the end of a paragraph's text: the trailing newline is excluded
paragraph_text_end(p) ==
  IF p.pos > 0 /\ byte(p.pos - 1) = "\n" THEN p.pos - 1 ELSE p.pos

\* the span of a one-line block and of a paragraph in tree mode
block_span(p, start_pos, start_line, text_end) ==
  from_coords(start_line, 1, as_u32(start_pos),
              Max(saturating_sub(p.line, 1), start_line),
              as_u32(text_end - start_pos), as_u32(text_end))

scan_paragraph_node(p0, start_pos, start_line) ==
  LET p == paragraph_loop(p0)
      text_end == paragraph_text_end(p)
      text == text_slice(start_pos, text_end)
      data == [value |-> text]
      span == block_span(p, start_pos, start_line, text_end)
  IN Scan(p, Some(with_data(with_span(NodeNew(0, "paragraph"), span), data)))

scan_heading_node(p0, start_pos, start_line) ==
  LET h == heading_depth_loop(p0, 0)
  IN IF byte(h.p.pos) \notin {" ", "\n", None}
     THEN scan_paragraph_node([h.p EXCEPT !.pos = start_pos], start_pos, start_line)
     ELSE LET p1 == skip_horizontal_space(h.p)
              text_start == p1.pos
              text_end == find_newline(p1)
              len == heading_text_len(text_start, text_end - text_start)
              text == text_slice(text_start, text_start + len)
              p == skip_to_newline(p1)
              data == [depth |-> h.depth, value |-> text]
              span == block_span(p, start_pos, start_line, text_end)
          IN Scan(p, Some(with_data(with_span(NodeNew(0, "heading"), span), data)))

\* the loop of scan_code_block_node: the state after and code_end
RECURSIVE code_block_node_loop(_)
code_block_node_loop(p) ==
  IF p.pos >= SrcLen THEN [p |-> p, code_end |-> SrcLen]
  ELSE LET tick_pos == FindByte(Backtick, p.pos)
       IN IF tick_pos >= SrcLen
          THEN [p |-> [p EXCEPT !.line = as_u32(@ + count_newlines(p.pos, SrcLen)),
                                !.pos = SrcLen],
                code_end |-> SrcLen]
          ELSE IF byte(tick_pos + 1) = Backtick /\ byte(tick_pos + 2) = Backtick
          THEN [p |-> skip_to_newline(
                        [p EXCEPT !.line = as_u32(@ + count_newlines(p.pos, tick_pos)),
                                  !.pos = tick_pos + 3]),
                code_end |-> tick_pos]
          ELSE code_block_node_loop([p EXCEPT !.pos = tick_pos + 1])

scan_code_block_node(p0, start_pos, start_line) ==
  LET p1 == [p0 EXCEPT !.pos = @ + 3]
      info_start == p1.pos
      info_end == find_newline(p1)
      lang == trim(text_slice(info_start, info_end))
      p2 == skip_to_newline(p1)
      code_start == p2.pos
      r == code_block_node_loop(p2)
      code == text_slice(code_start, r.code_end)
      data == IF lang # << >> THEN [lang |-> lang, value |-> code] ELSE [value |-> code]
      span == from_coords(start_line, 1, as_u32(start_pos), r.p.line, 3, as_u32(r.p.pos))
  IN Scan(r.p, Some(with_data(with_span(NodeNew(0, "code"), span), data)))

scan_thematic_break_node(p0, start_line) ==
  LET start_pos == p0.pos
      p == skip_to_newline(p0)
      span == from_coords(start_line, 1, as_u32(start_pos), start_line, 3, as_u32(p.pos))
  IN Scan(p, Some(with_span(NodeNew(0, "thematicBreak"), span)))

\* a block scan that returns without having moved the cursor
scan_blockquote_in_place(p0, start_pos, start_line) == Scan(p0, Nothing)

scan_blockquote_node(p0, start_pos, start_line) ==
  LET p1 == skip_horizontal_space([p0 EXCEPT !.pos = @ + 1])
      text_start == p1.pos
      text_end == find_newline(p1)
      text == text_slice(text_start, text_end)
      p == skip_to_newline(p1)
      data == [value |-> text]
      span == block_span(p, start_pos, start_line, text_end)
  IN Scan(p, Some(with_data(with_span(NodeNew(0, "blockquote"), span), data)))

\* the list marker: digits and one more byte, or one byte (both modes)
skip_list_marker(p, ordered) ==
  IF ordered
  THEN [p EXCEPT !.pos = ScanWhile(p.pos, Digit) + 1]
  ELSE [p EXCEPT !.pos = @ + 1]

\* a task marker that takes every marker between brackets for a checked one
task_marker_always_checked(p) ==
  IF byte(p.pos) = "[" /\ byte(p.pos + 1) # None /\ byte(p.pos + 2) = "]"
  THEN [p |-> skip_horizontal_space([p EXCEPT !.pos = @ + 3]), checked |-> Some(TRUE)]
  ELSE [p |-> p, checked |-> Nothing]

\* the task marker of scan_list_item_node: the state after and checked
task_marker_node(p) ==
  IF byte(p.pos) = "[" /\ byte(p.pos + 1) # None /\ byte(p.pos + 2) = "]"
  THEN IF byte(p.pos + 1) \in {"x", "X"}
       THEN [p |-> skip_horizontal_space([p EXCEPT !.pos = @ + 3]), checked |-> Some(TRUE)]
       ELSE IF byte(p.pos + 1) = " "
       THEN [p |-> skip_horizontal_space([p EXCEPT !.pos = @ + 3]), checked |-> Some(FALSE)]
       ELSE [p |-> p, checked |-> Nothing]
  ELSE [p |-> p, checked |-> Nothing]

scan_list_item_node(p0, start_pos, start_line) ==
  LET ordered == byte(p0.pos) \in Digit
      p1 == skip_horizontal_space(skip_list_marker(p0, ordered))
      t == task_marker_node(p1)
      text_start == t.p.pos
      text_end == find_newline(t.p)
      text == text_slice(text_start, text_end)
      p == skip_to_newline(t.p)
      data == IF t.checked = Nothing
              THEN [ordered |-> ordered, value |-> text]
              ELSE [ordered |-> ordered, value |-> text,
                    checked |-> CHOOSE c \in t.checked : TRUE]
      span == block_span(p, start_pos, start_line, text_end)
  IN Scan(p, Some(with_data(with_span(NodeNew(0, "listItem"), span), data)))

scan_block_to_node(p0) ==
  LET p == skip_horizontal_space(p0)
      b == byte(p.pos)
      start_line == p.line
      start_pos == p.pos
  IN IF p.pos >= SrcLen THEN Scan(p, Nothing)
     ELSE IF b = "\n" THEN Scan([p EXCEPT !.pos = @ + 1, !.line = as_u32(@ + 1)], Nothing)
     ELSE IF b = "#" THEN scan_heading_node(p, start_pos, start_line)
     ELSE IF b = Backtick /\ is_code_fence(p) THEN scan_code_block_node(p, start_pos, start_line)
     ELSE IF b \in {"-", "*", "_"} /\ is_thematic_break(p)
     THEN scan_thematic_break_node(p, start_line)
     ELSE IF b \in {"-", "*", "+"} THEN scan_list_item_node(p, start_pos, start_line)
     ELSE IF b = ">" THEN scan_blockquote_node(p, start_pos, start_line)
     ELSE IF b \in Digit /\ is_ordered_list(p) THEN scan_list_item_node(p, start_pos, start_line)
     ELSE scan_paragraph_node(p, start_pos, start_line)

scan_paragraph_binary(p0, start_pos, start_line) ==
  LET p == paragraph_loop(p0)
      text_end == paragraph_text_end(p)
  IN Scan(p, Some([BinaryNodeDefault EXCEPT
                     !.node_type = PARAGRAPH, !.parent = 0,
                     !.text_start = as_u32(start_pos),
                     !.text_len = as_u32(text_end - start_pos),
                     !.span_start = start_line, !.span_end = p.line]))

scan_heading_binary(p0, start_pos, start_line) ==
  LET h == heading_depth_loop(p0, 0)
  IN IF byte(h.p.pos) \notin {" ", "\n", None}
     THEN scan_paragraph_binary([h.p EXCEPT !.pos = start_pos], start_pos, start_line)
     ELSE LET p1 == skip_horizontal_space(h.p)
              text_start == p1.pos
              text_end == find_newline(p1)
              len == heading_text_len(text_start, text_end - text_start)
              p == skip_to_newline(p1)
          IN Scan(p, Some([BinaryNodeDefault EXCEPT
                             !.node_type = HEADING, !.flags = h.depth, !.parent = 0,
                             !.text_start = as_u32(text_start), !.text_len = as_u32(len),
                             !.span_start = start_line, !.span_end = p.line]))

\* the BinaryNode both returns of scan_code_block_binary build
code_binary_node(p, lang_len, code_start, code_end, start_line) ==
  [BinaryNodeDefault EXCEPT
     !.node_type = CODE, !.flags = as_u8(lang_len), !.parent = 0,
     !.text_start = as_u32(code_start),
     !.text_len = as_u32(saturating_sub(code_end, code_start)),
     !.span_start = start_line, !.span_end = p.line]

\* the loop of scan_code_block_binary and the None that follows it
RECURSIVE code_block_binary_loop(_, _, _, _)
code_block_binary_loop(p, lang_len, code_start, start_line) ==
  IF p.pos >= SrcLen THEN Scan(p, Nothing)
  ELSE LET tick_pos == FindByte(Backtick, p.pos)
       IN IF tick_pos >= SrcLen
          THEN LET q == [p EXCEPT !.line = as_u32(@ + count_newlines(p.pos, SrcLen)),
                                  !.pos = SrcLen]
               IN Scan(q, Some(code_binary_node(q, lang_len, code_start, SrcLen, start_line)))
          ELSE IF byte(tick_pos + 1) = Backtick /\ byte(tick_pos + 2) = Backtick
          THEN LET q == skip_to_newline(
                          [p EXCEPT !.line = as_u32(@ + count_newlines(p.pos, tick_pos)),
                                    !.pos = tick_pos + 3])
               IN Scan(q, Some(code_binary_node(q, lang_len, code_start, tick_pos, start_line)))
          ELSE code_block_binary_loop([p EXCEPT !.pos = tick_pos + 1], lang_len, code_start,
                                      start_line)

scan_code_block_binary(p0, start_pos, start_line) ==
  LET p1 == [p0 EXCEPT !.pos = @ + 3]
      info_start == p1.pos
      info_end == find_newline(p1)
      lang_len == Min(info_end - info_start, 255)
      p2 == skip_to_newline(p1)
      code_start == p2.pos
  IN code_block_binary_loop(p2, lang_len, code_start, start_line)

scan_thematic_break_binary(p0, start_line) ==
  LET start_pos == p0.pos
      p == skip_to_newline(p0)
  IN Scan(p, Some([BinaryNodeDefault EXCEPT
                     !.node_type = THEMATIC_BREAK, !.parent = 0,
                     !.text_start = as_u32(start_pos),
                     !.span_start = start_line, !.span_end = start_line]))

scan_blockquote_binary(p0, start_pos, start_line) ==
  LET p1 == skip_horizontal_space([p0 EXCEPT !.pos = @ + 1])
      text_start == p1.pos
      text_end == find_newline(p1)
      p == skip_to_newline(p1)
  IN Scan(p, Some([BinaryNodeDefault EXCEPT
                     !.node_type = BLOCKQUOTE, !.parent = 0,
                     !.text_start = as_u32(text_start),
                     !.text_len = as_u32(text_end - text_start),
                     !.span_start = start_line, !.span_end = p.line]))

\* the task marker of scan_list_item_binary: the state after and the flags
task_marker_binary(p, flags0) ==
  IF byte(p.pos) = "[" /\ byte(p.pos + 1) # None /\ byte(p.pos + 2) = "]"
  THEN LET mark == byte(p.pos + 1)
           flags == BitOr(flags0, IF mark \in {"x", "X"} THEN 2 ELSE IF mark = " " THEN 4 ELSE 0)
       IN IF flags >= 2
          THEN [p |-> skip_horizontal_space([p EXCEPT !.pos = @ + 3]), flags |-> flags]
          ELSE [p |-> p, flags |-> flags]
  ELSE [p |-> p, flags |-> flags0]

scan_list_item_binary(p0, start_pos, start_line) ==
  LET ordered == byte(p0.pos) \in Digit
      p1 == skip_horizontal_space(skip_list_marker(p0, ordered))
      t == task_marker_binary(p1, IF ordered THEN 1 ELSE 0)
      text_start == t.p.pos
      text_end == find_newline(t.p)
      p == skip_to_newline(t.p)
  IN Scan(p, Some([BinaryNodeDefault EXCEPT
                     !.node_type = LIST_ITEM, !.flags = t.flags, !.parent = 0,
                     !.text_start = as_u32(text_start),
                     !.text_len = as_u32(text_end - text_start),
                     !.span_start = start_line, !.span_end = p.line]))

scan_block_to_binary(p0) ==
  LET p == skip_horizontal_space(p0)
      b == byte(p.pos)
      start_line == p.line
      start_pos == p.pos
  IN IF p.pos >= SrcLen THEN Scan(p, Nothing)
     ELSE IF b = "\n" THEN Scan([p EXCEPT !.pos = @ + 1, !.line = as_u32(@ + 1)], Nothing)
     ELSE IF b = "#" THEN scan_heading_binary(p, start_pos, start_line)
     ELSE IF b = Backtick /\ is_code_fence(p)
     THEN scan_code_block_binary(p, start_pos, start_line)
     ELSE IF b \in {"-", "*", "_"} /\ is_thematic_break(p)
     THEN scan_thematic_break_binary(p, start_line)
     ELSE IF b \in {"-", "*", "+"} THEN scan_list_item_binary(p, start_pos, start_line)
     ELSE IF b = ">" THEN scan_blockquote_binary(p, start_pos, start_line)
     ELSE IF b \in Digit /\ is_ordered_list(p)
     THEN scan_list_item_binary(p, start_pos, start_line)
     ELSE scan_paragraph_binary(p, start_pos, start_line)

\* a parse that appends the node of a block without linking it to the root
add_block_unlinked(tree, node) == [tree |-> add_node(tree, node), err |-> Nothing]

\* tree.add_node(node) and tree.add_child(tree.root_id(), node_id) of parse
add_block(tree, node) ==
  LET node_id == Len(tree.nodes)
  IN add_child(add_node(tree, node), root_id(tree), node_id)

\* the while loop of MarkdownParserV2::parse: the scanner after, the tree and the error
RECURSIVE md_parse_loop(_, _)
md_parse_loop(p, tree) ==
  IF p.pos < SrcLen
  THEN LET r == scan_block_to_node(p)
           a == IF r.node # Nothing
                THEN add_block(tree, CHOOSE n \in r.node : TRUE)
                ELSE [tree |-> tree, err |-> Nothing]
       IN IF a.err # Nothing THEN [p |-> r.p, tree |-> a.tree, err |-> a.err]
          ELSE IF r.p.pos > p.pos THEN md_parse_loop(r.p, a.tree)
          ELSE [p |-> Stalled(r.p), tree |-> a.tree, err |-> Nothing]
  ELSE [p |-> p, tree |-> tree, err |-> Nothing]

\* MarkdownParserV2::parse
md_parse(p) == md_parse_loop(p, TreeNew("markdown", src))

\* the while loop of MarkdownParserV2::parse_binary: the scanner after and the nodes
RECURSIVE md_binary_loop(_, _)
md_binary_loop(p, nodes) ==
  IF p.pos < SrcLen
  THEN LET r == scan_block_to_binary(p)
           pushed == IF r.node # Nothing
                     THEN Append(nodes, CHOOSE n \in r.node : TRUE)
                     ELSE nodes
       IN IF r.p.pos > p.pos THEN md_binary_loop(r.p, pushed)
          ELSE [p |-> Stalled(r.p), nodes |-> pushed]
  ELSE [p |-> p, nodes |-> nodes]

\* one BinaryNode written at its offset behind the header
md_write_node(buf, offset, node) ==
  LET b0 == copy_from_slice(buf, offset, << node.node_type >>)
      b1 == copy_from_slice(b0, offset + 1, << node.flags >>)
      b2 == copy_from_slice(b1, offset + 4, to_le_bytes(node.parent))
      b3 == copy_from_slice(b2, offset + 8, to_le_bytes(node.text_start))
      b4 == copy_from_slice(b3, offset + 12, to_le_bytes(node.text_len))
      b5 == copy_from_slice(b4, offset + 16, to_le_bytes(node.span_start))
  IN copy_from_slice(b5, offset + 20, to_le_bytes(node.span_end))

RECURSIVE md_write_nodes(_, _, _)
md_write_nodes(buf, nodes, i) ==
  IF i >= Len(nodes) THEN buf
  ELSE md_write_nodes(md_write_node(buf, 8 + i * BINARY_NODE_SIZE, nodes[i + 1]), nodes, i + 1)

\* the serialisation of MarkdownParserV2::parse_binary
md_encode_nodes(nodes) ==
  LET count == Len(nodes)
      header_size == 8
      zeroed == [i \in 1..(header_size + count * BINARY_NODE_SIZE) |-> 0]
      b0 == copy_from_slice(zeroed, 0, to_le_bytes(as_u32(count)))
      b1 == copy_from_slice(b0, 4, to_le_bytes(as_u32(SrcLen)))
  IN md_write_nodes(b1, nodes, 0)

\* MarkdownParserV2::parse_binary: the scanner after, the nodes and the buffer
md_parse_binary(p) ==
  LET root == [BinaryNodeDefault EXCEPT
                 !.node_type = ROOT, !.text_len = as_u32(SrcLen), !.span_start = 1]
  IN CHOOSE res \in UNION
       {{[p |-> r.p, nodes |-> nodes, buf |-> md_encode_nodes(nodes)] :
           nodes \in {[r.nodes EXCEPT ![1].span_end = r.p.line]}} :
        r \in {md_binary_loop(p, << root >>)}} : TRUE

\* the while loop of MarkdownParserV2::parse_count: the scanner after and the count
RECURSIVE md_count_loop(_, _)
md_count_loop(p, count) ==
  IF p.pos < SrcLen
  THEN LET r == scan_block_to_binary(p)
           counted == IF r.node # Nothing THEN count + 1 ELSE count
       IN IF r.p.pos > p.pos THEN md_count_loop(r.p, counted)
          ELSE [p |-> Stalled(r.p), count |-> counted]
  ELSE [p |-> p, count |-> count]

\* a count that starts at 0: the root is not counted
md_parse_count_from_zero(p) == md_count_loop(p, 0)

\* MarkdownParserV2::parse_count
md_parse_count(p) == md_count_loop(p, 1)

(***************************************************************************)
(* Inputs.  Sources are drawn from small families: every byte string up to  *)
(* a length over a few alphabets, every concatenation of a few fragments    *)
(* (keywords and punctuators), and the prefixes of some whole programs.     *)
(***************************************************************************)

\* longest source drawn byte by byte
MaxLen == 3

\* most fragments concatenated into one source
MaxFrags == 3

\* the most nodes the Tree driven directly holds, and the most links
MaxNodes == 3
MaxLinks == 2

\* calls made after the end of the input has been reached
MaxEofCalls == 2

SeqsUpTo(S, n) == UNION {[1..k -> S] : k \in 0..n}

RECURSIVE Concats(_, _)
Concats(F, n) ==
  IF n = 0 THEN {<< >>}
  ELSE {<< >>} \cup {f \o s : f \in F, s \in Concats(F, n - 1)}

Prefixes(s) == {SubSeq(s, 1, k) : k \in 0..Len(s)}

LexAlphabets ==
  { {" ", "\n", "a", "1", "\"", "\\", Backtick, "/", "*"},
    {"<", ">", "=", "!", "&", "|", "?", ".", "+"},
    {"0", "1", "x", "b", "e", ".", "_", "n", "-"} }

LexSources == UNION {SeqsUpTo(A, MaxLen) : A \in LexAlphabets}

\* sources of at most MaxLen bytes over the bytes of simple expression statements
FlatAlphabet == {"x", "1", " ", "+", "=", ";", "\"", "\\", Backtick}

FlatSources == SeqsUpTo(FlatAlphabet, MaxLen)

\* families of program fragments: a longer source is up to MaxFrags fragments of a family
JsFragments ==
  {{<<"f","(">>, <<"x">>, <<",">>, <<")">>, <<".","y">>, <<"n","e","w"," ">>, <<"?",".","[">>},
   {<<"[">>, <<"]">>, <<"{">>, <<"}">>, <<"x">>, <<",">>, <<"a",":">>, <<".",".",".">>},
   {<<"i","f","(","x",")">>, <<"e","l","s","e"," ">>, <<"x",";">>, <<"{">>, <<"}">>,
     <<"f","o","r","(">>, <<"w","h","i","l","e","(">>, <<"d","o"," ">>},
   {<<"s","w","i","t","c","h","(","x",")","{">>, <<"c","a","s","e"," ","1",":">>,
     <<"d","e","f","a","u","l","t",":">>, <<"x">>, <<"}">>, <<";">>, <<"b","r","e","a","k">>},
   {<<"c","l","a","s","s"," ","A","{">>, <<"s","t","a","t","i","c"," ">>, <<"x">>,
     <<"(",")","{">>, <<"}">>, <<"=">>, <<";">>},
   {<<"f","u","n","c","t","i","o","n"," ">>, <<"a","s","y","n","c"," ">>, <<"*">>,
     <<"f","(">>, <<"x">>, <<")","{">>, <<"}">>, <<"=",">">>},
   {<<"l","e","t"," ">>, <<"c","o","n","s","t"," ">>, <<"x">>, <<"=">>, <<",">>, <<"[">>,
     <<"{">>, <<"}">>},
   {<<"i","m","p","o","r","t"," ">>, <<"e","x","p","o","r","t"," ">>, <<"x">>, <<"*">>,
     <<"{">>, <<"}">>, <<" ","f","r","o","m"," ">>, <<"\"","\"">>,
     <<"d","e","f","a","u","l","t"," ">>},
   {<<"t","r","y","{">>, <<"}","c","a","t","c","h">>, <<"(","x",")">>,
     <<"f","i","n","a","l","l","y","{">>, <<"}">>, <<"r","e","t","u","r","n"," ">>,
     <<"t","h","r","o","w"," ">>, <<"x">>},
   {<<"x">>, <<"\n">>, <<"/","/">>, <<"/","*">>, <<"*","/">>, <<"\"">>, <<"\\">>,
     <<Backtick>>, <<" ">>} }

NestedSources == {s \in UNION {Concats(F, MaxFrags) : F \in JsFragments} : Len(s) > MaxLen}

JsSources == FlatSources \cup NestedSources

\* the binary and assignment operators of chains of three operands, each with
\* its precedence level, from assignment (1) to exponentiation (13); '??' is
\* taken in the loop of '||' and no operator has level 2, the conditional
ChainOps ==
  { << <<"=">>, 1 >>, << <<"+","=">>, 1 >>,
    << <<"?","?">>, 3 >>, << <<"|","|">>, 3 >>, << <<"&","&">>, 4 >>,
    << <<"|">>, 5 >>, << <<"^">>, 6 >>, << <<"&">>, 7 >>,
    << <<"=","=">>, 8 >>, << <<"!","=">>, 8 >>,
    << <<"<">>, 9 >>, << <<">","=">>, 9 >>,
    << <<"<","<">>, 10 >>, << <<">",">">>, 10 >>,
    << <<"+">>, 11 >>, << <<"-">>, 11 >>,
    << <<"*">>, 12 >>, << <<"%">>, 12 >>,
    << <<"*","*">>, 13 >> }

\* an operand with an operator behind it, and an operand alone
ChainFragments == {<<"x">> \o o[1] : o \in ChainOps} \cup {<<"1">>}

ChainSources == Concats(ChainFragments, MaxFrags)

\* the token of a window that has not been filled
NoToken == Token("Eof", 0, 0)

\* a lexer at Lexer::new, and no parser yet (parCurrent is empty)
InitLexer ==
  /\ lexPos = 0
  /\ lexToks = << >>
  /\ lexCursors = << 0 >>
  /\ parser = [pos |-> 0, cur |-> NoToken, peek |-> NoToken, nodes |-> << >>,
               log |-> << >>, stall |-> FALSE]
  /\ parCurrent = << >>
  /\ parCall = [kind |-> None, before |-> parser, after |-> parser]

\* a call on the Tree: the Tree before it, its ids (a and b) and what it returned
TreeCall(op, before, a, b, ret, err) ==
  [op |-> op, before |-> before, a |-> a, b |-> b, ret |-> ret, err |-> err]

InitResults ==
  /\ done = {}
  /\ tokList = << >>
  /\ tokCount = 0
  /\ jsCount = 0
  /\ jsBuf = << >>
  /\ jsNodes = << >>
  /\ jsPushed = << >>
  /\ jsStall = FALSE
  /\ jsEnd = NoToken
  /\ mdTree = [meta |-> [language |-> "", source |-> << >>], root |-> 0, nodes |-> << >>]
  /\ mdErr = {}
  /\ mdBuf = << >>
  /\ mdNodes = << >>
  /\ mdCount = 0
  /\ mdStall = FALSE
  /\ mdJson = {}
  /\ arena = TreeNew("markdown", src)
  /\ arenaCall = TreeCall("new", arena, 0, 0, 0, Nothing)

lexVars == << lexPos, lexToks, lexCursors, parser, parCurrent, parCall >>
tokVars == << tokList, tokCount >>
jsVars == << jsCount, jsBuf, jsNodes, jsPushed, jsStall, jsEnd >>
treeVars == << arena, arenaCall >>
mdVars == << mdTree, mdErr, mdBuf, mdNodes, mdCount, mdStall, mdJson >>

\* the Eof tokens in a sequence of tokens
EofCount(toks) == Cardinality({i \in 1..Len(toks) : toks[i].kind = "Eof"})

\* one call of Lexer::next_token on the lexer over src
LexNextToken ==
  /\ EofCount(lexToks) <= MaxEofCalls
  /\ LET r == next_token(lexPos)
     IN /\ lexPos' = r.pos
        /\ lexToks' = Append(lexToks, r.tok)
        /\ lexCursors' = Append(lexCursors, r.pos)
  /\ UNCHANGED << treeVars, src, parser, parCurrent, parCall, done, tokVars, jsVars, mdVars >>

\* Parser::new on src
ParserConstruct ==
  /\ parCurrent = << >>
  /\ parser' = ParserNew
  /\ parCurrent' = << parser'.cur >>
  /\ UNCHANGED << treeVars, src, lexPos, lexToks, lexCursors, parCall, done, tokVars, jsVars, mdVars >>

\* one call of Parser::advance on the parser over src
ParserAdvance ==
  /\ parCurrent # << >>
  /\ EofCount(parCurrent) <= MaxEofCalls
  /\ parser' = advance(parser)
  /\ parCurrent' = Append(parCurrent, parser'.cur)
  /\ UNCHANGED << treeVars, src, lexPos, lexToks, lexCursors, parCall, done, tokVars, jsVars, mdVars >>

\* one call of Parser::expect on the parser over src, for the kind of the
\* current token, of the token behind it, or another kind
ParserExpect ==
  /\ parCurrent # << >>
  /\ EofCount(parCurrent) <= MaxEofCalls
  /\ \E kind \in {parser.cur.kind, parser.peek.kind, "RParen", "Eof"} :
        /\ parser' = expect(parser, kind)
        /\ parCall' = [kind |-> kind, before |-> parser, after |-> parser']
        /\ parCurrent' = IF at(parser, kind) THEN Append(parCurrent, parser'.cur)
                         ELSE parCurrent
  /\ UNCHANGED << treeVars, src, lexPos, lexToks, lexCursors, done, tokVars, jsVars, mdVars >>

\* the tokenize entry point (wasm-js lib.rs)
JsTokenize ==
  /\ "tokenize" \notin done
  /\ done' = done \cup {"tokenize"}
  /\ tokList' = tokenize
  /\ tokCount' = Len(tokList')
  /\ UNCHANGED << treeVars, src, lexVars, jsVars, mdVars >>

\* the parseCount entry point (wasm-js lib.rs)
JsParseCount ==
  /\ "parseCount" \notin done
  /\ done' = done \cup {"parseCount"}
  /\ jsCount' = parse_count(ParserNew)
  /\ UNCHANGED << treeVars, src, lexVars, tokVars, jsBuf, jsNodes, jsPushed, jsStall, jsEnd,
                  mdVars >>

\* the parseBinary entry point (wasm-js lib.rs)
JsParseBinary ==
  /\ "parseBinary" \notin done
  /\ done' = done \cup {"parseBinary"}
  /\ \E r \in {parse_binary(ParserNew)} :
        /\ jsBuf' = r.buf
        /\ jsNodes' = r.parser.nodes
        /\ jsPushed' = r.parser.log
        /\ jsStall' = r.parser.stall
        /\ jsEnd' = r.parser.cur
  /\ UNCHANGED << treeVars, src, lexVars, tokVars, jsCount, mdVars >>

InitLex == src \in LexSources /\ InitLexer /\ InitResults
NextLex == LexNextToken \/ ParserConstruct \/ ParserAdvance
SpecLex == InitLex /\ [][NextLex]_vars

\* a Parser driven through advance() and expect()
NextExpect == ParserConstruct \/ ParserAdvance \/ ParserExpect
SpecExpect == InitLex /\ [][NextExpect]_vars

InitTok == src \in LexSources /\ InitLexer /\ InitResults
NextTok == JsTokenize
SpecTok == InitTok /\ [][NextTok]_vars

\* the sources of the keyword test: every keyword alone, and every keyword with
\* one more byte of an identifier behind it
KeywordSources ==
  {KeywordTable[i].s : i \in 1..Len(KeywordTable)}
    \cup {KeywordTable[i].s \o << c >> : i \in 1..Len(KeywordTable), c \in IdentPart}

InitKw == src \in KeywordSources /\ InitLexer /\ InitResults
NextKw == JsTokenize
SpecKw == InitKw /\ [][NextKw]_vars

\* the operators and punctuators of TokenKind that are more than one byte long
OperatorTable ==
  << [s |-> <<".",".",".">>, k |-> "DotDotDot"],
     [s |-> <<"?",".">>, k |-> "QuestionDot"],
     [s |-> <<"?","?">>, k |-> "QuestionQuestion"],
     [s |-> <<"=",">">>, k |-> "Arrow"],
     [s |-> <<"*","*">>, k |-> "StarStar"],
     [s |-> <<"+","+">>, k |-> "PlusPlus"],
     [s |-> <<"-","-">>, k |-> "MinusMinus"],
     [s |-> <<"<","<">>, k |-> "LtLt"],
     [s |-> <<">",">">>, k |-> "GtGt"],
     [s |-> <<">",">",">">>, k |-> "GtGtGt"],
     [s |-> <<"<","=">>, k |-> "LtEq"],
     [s |-> <<">","=">>, k |-> "GtEq"],
     [s |-> <<"=","=">>, k |-> "EqEq"],
     [s |-> <<"!","=">>, k |-> "BangEq"],
     [s |-> <<"=","=","=">>, k |-> "EqEqEq"],
     [s |-> <<"!","=","=">>, k |-> "BangEqEq"],
     [s |-> <<"&","&">>, k |-> "AmpAmp"],
     [s |-> <<"|","|">>, k |-> "PipePipe"],
     [s |-> <<"+","=">>, k |-> "PlusEq"],
     [s |-> <<"-","=">>, k |-> "MinusEq"],
     [s |-> <<"*","=">>, k |-> "StarEq"],
     [s |-> <<"/","=">>, k |-> "SlashEq"],
     [s |-> <<"%","=">>, k |-> "PercentEq"],
     [s |-> <<"*","*","=">>, k |-> "StarStarEq"],
     [s |-> <<"<","<","=">>, k |-> "LtLtEq"],
     [s |-> <<">",">","=">>, k |-> "GtGtEq"],
     [s |-> <<">",">",">","=">>, k |-> "GtGtGtEq"],
     [s |-> <<"&","=">>, k |-> "AmpEq"],
     [s |-> <<"|","=">>, k |-> "PipeEq"],
     [s |-> <<"^","=">>, k |-> "CaretEq"],
     [s |-> <<"&","&","=">>, k |-> "AmpAmpEq"],
     [s |-> <<"|","|","=">>, k |-> "PipePipeEq"],
     [s |-> <<"?","?","=">>, k |-> "QuestionQuestionEq"] >>

\* the bytes an operand or a blank behind an operator begins with
OperatorFollowers == {" ", "x"}

\* the sources of the operator test: every operator alone, and every operator
\* with a blank or the start of an operand behind it
OperatorSources ==
  {OperatorTable[i].s : i \in 1..Len(OperatorTable)}
    \cup {OperatorTable[i].s \o << c >> :
            i \in 1..Len(OperatorTable), c \in OperatorFollowers}

InitOp == src \in OperatorSources /\ InitLexer /\ InitResults
NextOp == JsTokenize
SpecOp == InitOp /\ [][NextOp]_vars

\* s is a concatenation of at most n fragments of the family F
RECURSIVE MadeOf(_, _, _)
MadeOf(s, F, n) ==
  \/ s = << >>
  \/ /\ n > 0
     /\ \E f \in F : /\ Len(f) <= Len(s)
                      /\ SubSeq(s, 1, Len(f)) = f
                      /\ MadeOf(SubSeq(s, Len(f) + 1, Len(s)), F, n - 1)

\* the host calls the entry points again, on a source that is one fragment
\* longer: the module keeps nothing between two calls, so the results start over
JsNextSource ==
  /\ done = {"parseCount", "parseBinary"}
  /\ \E F \in JsFragments :
       /\ MadeOf(src, F, MaxFrags - 1)
       /\ \E f \in F : src' = src \o f
  /\ done' = {}
  /\ jsCount' = 0
  /\ jsBuf' = << >>
  /\ jsNodes' = << >>
  /\ jsPushed' = << >>
  /\ jsStall' = FALSE
  /\ jsEnd' = NoToken
  /\ UNCHANGED << treeVars, lexVars, tokVars, mdVars >>

InitJs == src \in FlatSources /\ InitLexer /\ InitResults
NextJs == JsParseCount \/ JsParseBinary \/ JsNextSource
SpecJs == InitJs /\ [][NextJs]_vars

\* whole lines: a heading, two paragraph lines, a list item, a block quote and
\* three blank lines
LineFragments ==
  {<<"#"," ","a","\n">>, <<"a","\n">>, <<" ","a","\n">>, <<"-"," ","a","\n">>,
   <<">","a","\n">>, <<"\n">>, <<" ","\n">>, <<" ","\t","\n">>}

\* families of Markdown fragments: a source is up to MaxFrags fragments of a family
MdFragments ==
  {{<<Backtick,Backtick,Backtick>>, <<Backtick,Backtick,Backtick,"\n">>, <<"a">>, <<"\n">>,
    <<Backtick>>, <<" ">>, <<"a","\n">>, <<"r","s","\n">>},
   {<<"#">>, <<"#"," ">>, <<"a">>, <<"\n">>, <<" ">>, <<"#","#","#","#","#","#">>},
   {<<"-">>, <<"*">>, <<"_">>, <<"+">>, <<" ">>, <<"\n">>, <<"a">>, <<"-","-","-">>},
   {<<"1">>, <<"."," ">>, <<")"," ">>, <<"-"," ">>, <<"[","x","]">>, <<"["," ","]">>,
    <<"[","X","]">>, <<"[","a","]">>, <<"a">>, <<"\n">>},
   {<<">">>, <<" ">>, <<"a">>, <<"\n">>, <<"\t">>, <<"#"," ">>,
    <<Backtick,Backtick,Backtick>>},
   LineFragments }

MdSources == UNION {Concats(F, MaxFrags) : F \in MdFragments}

\* the Markdown parse entry point on src
MdParse ==
  /\ "md.parse" \notin done
  /\ done' = done \cup {"md.parse"}
  /\ \E r \in {md_parse(MarkdownParserV2New)} :
        /\ mdTree' = r.tree
        /\ mdErr' = r.err
        /\ mdStall' = (mdStall \/ r.p.stall)
  /\ UNCHANGED << treeVars, src, lexVars, tokVars, jsVars, mdBuf, mdNodes, mdCount, mdJson >>

\* the Markdown parseBinary entry point on src
MdParseBinary ==
  /\ "md.parseBinary" \notin done
  /\ done' = done \cup {"md.parseBinary"}
  /\ \E r \in {md_parse_binary(MarkdownParserV2New)} :
        /\ mdBuf' = r.buf
        /\ mdNodes' = r.nodes
        /\ mdStall' = (mdStall \/ r.p.stall)
  /\ UNCHANGED << treeVars, src, lexVars, tokVars, jsVars, mdTree, mdErr, mdCount, mdJson >>

\* the Markdown parseCount entry point on src
MdParseCount ==
  /\ "md.parseCount" \notin done
  /\ done' = done \cup {"md.parseCount"}
  /\ \E r \in {md_parse_count(MarkdownParserV2New)} :
        /\ mdCount' = r.count
        /\ mdStall' = (mdStall \/ r.p.stall)
  /\ UNCHANGED << treeVars, src, lexVars, tokVars, jsVars, mdTree, mdErr, mdBuf, mdNodes, mdJson >>

\* the Markdown parseToJson entry point on src
MdParseToJson ==
  /\ "md.parseToJson" \notin done
  /\ done' = done \cup {"md.parseToJson"}
  /\ \E r \in {md_parse(MarkdownParserV2New)} :
        /\ mdJson' = (IF r.err = Nothing THEN Some(serialize_tree(r.tree)) ELSE Nothing)
        /\ mdStall' = (mdStall \/ r.p.stall)
  /\ UNCHANGED << treeVars, src, lexVars, tokVars, jsVars, mdTree, mdErr, mdBuf, mdNodes, mdCount >>

\* a second call of the Markdown parse entry point on the same src
MdParseAgain ==
  /\ "md.parse" \in done
  /\ "md.parse.again" \notin done
  /\ done' = done \cup {"md.parse.again"}
  /\ \E r \in {md_parse(MarkdownParserV2New)} :
        /\ mdTree' = r.tree
        /\ mdErr' = r.err
        /\ mdStall' = (mdStall \/ r.p.stall)
  /\ UNCHANGED << treeVars, src, lexVars, tokVars, jsVars, mdBuf, mdNodes, mdCount, mdJson >>

\* the parseBinary entry point on chains of operands and operators
InitChain == src \in ChainSources /\ InitLexer /\ InitResults
NextChain == JsParseBinary
SpecChain == InitChain /\ [][NextChain]_vars

InitMd == src \in MdSources /\ InitLexer /\ InitResults
NextMd == MdParse \/ MdParseBinary \/ MdParseCount
SpecMd == InitMd /\ [][NextMd]_vars

\* the links of a Tree: the entries of all its children lists
RECURSIVE LinkCountTo(_, _)
LinkCountTo(t, n) ==
  IF n = 0 THEN 0 ELSE Len(t.nodes[n].children) + LinkCountTo(t, n - 1)

LinkCount(t) == LinkCountTo(t, Len(t.nodes))

\* Tree::add_node with a Node::new of any id, on the Tree
TreeAddNode ==
  /\ node_count(arena) < MaxNodes
  /\ \E id \in 0..MaxNodes, node_type \in {"text"} :
        /\ arena' = add_node(arena, NodeNew(id, node_type))
        /\ arenaCall' = TreeCall("add_node", arena, id, 0, Len(arena.nodes), Nothing)
  /\ UNCHANGED << src, lexVars, done, tokVars, jsVars, mdVars >>

\* Tree::add_child with any two ids, on the Tree
TreeAddChild ==
  /\ LinkCount(arena) < MaxLinks
  /\ \E parent_id, child_id \in 0..MaxNodes :
        \E r \in {add_child(arena, parent_id, child_id)} :
          /\ arena' = r.tree
          /\ arenaCall' = TreeCall("add_child", arena, parent_id, child_id, 0, r.err)
  /\ UNCHANGED << src, lexVars, done, tokVars, jsVars, mdVars >>

\* Tree::get_node and Tree::get_node_mut (one lookup) with any id, on the Tree
TreeGetNode ==
  /\ \E id \in 0..MaxNodes :
        \E r \in {get_node(arena, id)} :
          arenaCall' = TreeCall("get_node", arena, id, 0,
                               IF r.err = Nothing THEN (CHOOSE n \in r.ok : TRUE).id ELSE 0,
                               r.err)
  /\ UNCHANGED << arena, src, lexVars, done, tokVars, jsVars, mdVars >>

InitTree == src = << >> /\ InitLexer /\ InitResults
NextTree == TreeAddNode \/ TreeAddChild \/ TreeGetNode
SpecTree == InitTree /\ [][NextTree]_vars

\* add_node and the add_child calls that return Ok
TreeAddChildOk == TreeAddChild /\ arenaCall'.err = Nothing
NextLinks == TreeAddNode \/ TreeAddChildOk
SpecLinks == InitTree /\ [][NextLinks]_vars

\* the parseToJson entry point alone, after parse
NextJson == MdParse \/ MdParseToJson
SpecJson == InitMd /\ [][NextJson]_vars

\* parse called twice on one source
NextTwice == MdParse \/ MdParseAgain
SpecTwice == InitMd /\ [][NextTwice]_vars

(***************************************************************************)
(* Properties.                                                             *)
(***************************************************************************)

\* u32::from_le_bytes of the four bytes of buf at offset
from_le_bytes(buf, offset) ==
  buf[offset + 1] + 256 * buf[offset + 2] + 65536 * buf[offset + 3]
    + 16777216 * buf[offset + 4]

\* the node count a buffer's header states
header_count(buf) == from_le_bytes(buf, 0)

\* C1: the buffer of the JS/TS parseBinary is 4 + 16 * n bytes long, n being the
\* little-endian u32 of its first four bytes and the number of 16-byte records
\* behind them, and n is what parseCount returns for the same source.
JsBinaryLength ==
  "parseBinary" \in done =>
    /\ Len(jsBuf) >= 4
    /\ Len(jsBuf) = 4 + 16 * header_count(jsBuf)
    /\ "parseCount" \in done => header_count(jsBuf) = jsCount

\* both entry points have run on a source with several nodes
JsBinaryLengthWitness ==
  /\ {"parseCount", "parseBinary"} \subseteq done
  /\ jsCount >= 4
  /\ Len(jsBuf) = 4 + 16 * jsCount

\* C4: the JS/TS parse returns for every source, however malformed, with a node
\* list that holds the Program root: no iteration of a parsing loop leaves the
\* token window where it was, and the parse ends on the end-of-input token.
JsParserTerminates ==
  "parseBinary" \in done =>
    /\ ~jsStall
    /\ jsEnd.kind = "Eof"
    /\ Len(jsNodes) >= 1
    /\ \E i \in 1..Len(jsNodes) : jsNodes[i].kind = "Program"

\* a parse of a malformed source: it opens with a closing bracket and still
\* yields nodes besides the root
JsParserTerminatesWitness ==
  /\ "parseBinary" \in done
  /\ Len(src) > MaxLen
  /\ src[1] \in {")", "}", "]"}
  /\ Len(jsNodes) >= 3
  /\ jsEnd.kind = "Eof"

\* C5: after the parse the node array holds exactly one Program node, at index
\* 0, whose extra is the number of the other nodes, and the other nodes follow
\* it in the order of their pushes.
JsProgramRoot ==
  "parseBinary" \in done =>
    /\ Len(jsNodes) >= 1
    /\ jsNodes[1].kind = "Program"
    /\ Cardinality({i \in 1..Len(jsNodes) : jsNodes[i].kind = "Program"}) = 1
    /\ jsNodes[1].extra = Len(jsNodes) - 1
    /\ SubSeq(jsNodes, 2, Len(jsNodes)) = jsPushed

\* a parse that pushed several nodes of different kinds before the root went in
JsProgramRootWitness ==
  /\ "parseBinary" \in done
  /\ Len(jsPushed) >= 3
  /\ jsPushed[1].kind # jsPushed[2].kind
  /\ jsNodes[1].extra = Len(jsPushed)

\* C6: the Program root spans the whole input: it starts at offset 0 and ends at
\* the byte length of the source, also when the source opens with spaces or tabs
\* or ends inside an escape of a string or template.
JsRootSpansInput ==
  "parseBinary" \in done =>
    /\ jsNodes[1].start = 0
    /\ jsNodes[1].end = Len(src)

\* the record of node i (0-based) as the layout of the binary format reads it
decode_record(buf, i) ==
  LET at0 == 4 + 16 * i
  IN [tag |-> buf[at0 + 1], flags |-> buf[at0 + 2],
      pad |-> << buf[at0 + 3], buf[at0 + 4] >>,
      start |-> from_le_bytes(buf, at0 + 4), end |-> from_le_bytes(buf, at0 + 8),
      extra |-> from_le_bytes(buf, at0 + 12)]

\* C7: record i of the JS/TS buffer lies at bytes 4+16i .. 4+16i+16: kind tag,
\* flags, two zero bytes, then start, end and extra as little-endian u32; read
\* with this layout the buffer gives back the node array, in order, the kind
\* of a node being the kind its tag numbers.
JsRecordLayout ==
  "parseBinary" \in done =>
    /\ \A k \in 1..Len(jsBuf) : jsBuf[k] \in 0..255
    /\ \A i \in 0..(Len(jsNodes) - 1) :
         /\ decode_record(jsBuf, i) =
              [tag |-> NodeKindTag(jsNodes[i + 1].kind), flags |-> jsNodes[i + 1].flags,
               pad |-> << 0, 0 >>, start |-> jsNodes[i + 1].start,
               end |-> jsNodes[i + 1].end, extra |-> jsNodes[i + 1].extra]
         /\ NodeKinds[decode_record(jsBuf, i).tag] = jsNodes[i + 1].kind

\* a buffer whose records carry a non-zero flag set, a non-zero start and a
\* non-zero extra
JsRecordLayoutWitness ==
  /\ "parseBinary" \in done
  /\ Len(jsNodes) >= 3
  /\ \E i \in 0..(Len(jsNodes) - 1) :
       /\ decode_record(jsBuf, i).flags > 0
       /\ decode_record(jsBuf, i).extra > 0
  /\ \E i \in 0..(Len(jsNodes) - 1) : decode_record(jsBuf, i).start > 0

\* C8: the lexer's cursor never moves back, a call that returns a token other
\* than Eof moves it forward and the token is not empty, and a token starts at
\* or after the end of the token before it.
LexerMonotonic ==
  \A i \in 1..Len(lexToks) :
    /\ lexCursors[i] <= lexCursors[i + 1]
    /\ lexToks[i].kind # "Eof" =>
         /\ lexCursors[i] < lexCursors[i + 1]
         /\ lexToks[i].start < lexToks[i].end
    /\ i > 1 => lexToks[i].start >= lexToks[i - 1].end

\* two tokens before the end of the input, with a gap between them
LexerMonotonicWitness ==
  /\ Len(lexToks) >= 2
  /\ \A i \in 1..2 : lexToks[i].kind # "Eof"
  /\ lexToks[2].start > lexToks[1].end

\* C9: once next_token has returned Eof, every later call returns that same Eof
\* token and leaves the cursor where it was; and once the parser's current
\* token is Eof, advance() keeps it at that Eof.
EofIdempotent ==
  /\ \A i \in 1..Len(lexToks) :
       lexToks[i].kind = "Eof" =>
         \A j \in i..Len(lexToks) :
           /\ lexToks[j] = lexToks[i]
           /\ lexCursors[j + 1] = lexCursors[i + 1]
  /\ \A i \in 1..Len(parCurrent) :
       parCurrent[i].kind = "Eof" =>
         \A j \in i..Len(parCurrent) : parCurrent[j] = parCurrent[i]

\* the lexer was called again after Eof, behind a token and trailing blanks,
\* and the parser advanced at Eof
EofIdempotentWitness ==
  /\ Len(lexToks) >= 3
  /\ lexToks[1].kind # "Eof"
  /\ lexToks[Len(lexToks) - 1].kind = "Eof"
  /\ lexToks[Len(lexToks)].start > lexToks[1].end
  /\ Len(parCurrent) >= 2
  /\ parCurrent[Len(parCurrent) - 1].kind = "Eof"

\* C10: tokenize returns a list in which Eof occurs once, as the last element,
\* so the list is not empty and the count the entry point returns is at least 1.
TokenizeEndsWithEof ==
  "tokenize" \in done =>
    /\ Len(tokList) >= 1
    /\ tokList[Len(tokList)].kind = "Eof"
    /\ EofCount(tokList) = 1
    /\ tokCount = Len(tokList)
    /\ tokCount >= 1

\* a token list with tokens before its Eof
TokenizeEndsWithEofWitness ==
  /\ "tokenize" \in done
  /\ tokCount >= 3
  /\ tokList[1].kind # "Eof"

\* C2: the buffer of the Markdown parseBinary is an 8-byte header, the node
\* count n and the byte length of the source, and n records of 24 bytes, the
\* first of them the root; n is what parseCount returns for the same source.
MdBinaryLength ==
  "md.parseBinary" \in done =>
    /\ Len(mdBuf) >= 8 + BINARY_NODE_SIZE
    /\ Len(mdBuf) = 8 + 24 * header_count(mdBuf)
    /\ from_le_bytes(mdBuf, 4) = Len(src)
    /\ mdBuf[8 + 1] = ROOT
    /\ \A i \in 1..(header_count(mdBuf) - 1) : mdBuf[8 + 24 * i + 1] # ROOT
    /\ "md.parseCount" \in done => header_count(mdBuf) = mdCount

\* both entry points have run on a source of several blocks
MdBinaryLengthWitness ==
  /\ {"md.parseCount", "md.parseBinary"} \subseteq done
  /\ mdCount >= 3
  /\ Len(mdBuf) = 8 + 24 * mdCount

\* the type byte of the binary format for a node type of the tree
NodeTypeByte(node_type) ==
  CASE node_type = "root" -> ROOT
    [] node_type = "heading" -> HEADING
    [] node_type = "paragraph" -> PARAGRAPH
    [] node_type = "code" -> CODE
    [] node_type = "thematicBreak" -> THEMATIC_BREAK
    [] node_type = "blockquote" -> BLOCKQUOTE
    [] node_type = "listItem" -> LIST_ITEM

\* C3: the two Markdown modes classify a source alike: the tree of parse has
\* parseCount nodes, and the i-th child of its root has the type of the i-th
\* record behind the root record of parseBinary, also for a fenced code block
\* that is not closed before the end of the input.
MdModesAgree ==
  /\ {"md.parse", "md.parseCount"} \subseteq done => node_count(mdTree) = mdCount
  /\ {"md.parse", "md.parseBinary"} \subseteq done =>
       LET children == mdTree.nodes[1].children
       IN /\ Len(children) = header_count(mdBuf) - 1
          /\ \A i \in 1..Len(children) :
               i < header_count(mdBuf) =>
                 NodeTypeByte(mdTree.nodes[children[i] + 1].node_type)
                   = mdBuf[8 + 24 * i + 1]

\* C11: a keyword alone is tokenized to one token of the keyword's kind and
\* Eof, and a keyword with one more letter, digit, '_' or '$' behind it to one
\* Identifier token over the whole source and Eof.
KeywordsTokenize ==
  "tokenize" \in done =>
    \A i \in 1..Len(KeywordTable) :
      LET s == KeywordTable[i].s
          k == KeywordTable[i].k
      IN /\ src = s =>
              tokList = << Token(k, 0, Len(s)), Token("Eof", Len(s), Len(s)) >>
         /\ \A c \in IdentPart :
              src = s \o << c >> =>
                /\ tokList = << Token("Identifier", 0, Len(s) + 1),
                                Token("Eof", Len(s) + 1, Len(s) + 1) >>
                /\ tokList[1].kind # k

\* the source "consta" has been tokenized
KeywordsTokenizeWitness ==
  /\ "tokenize" \in done
  /\ src = << "c", "o", "n", "s", "t", "a" >>
  /\ tokList[1].kind = "Identifier"

\* C12: an operator of several bytes is one token: alone it is tokenized to one
\* token of its kind over the whole source and Eof, and with a blank or an
\* operand behind it the first token is still the whole operator.
OperatorsLongestMatch ==
  "tokenize" \in done =>
    \A i \in 1..Len(OperatorTable) :
      LET s == OperatorTable[i].s
          k == OperatorTable[i].k
      IN /\ src = s =>
              tokList = << Token(k, 0, Len(s)), Token("Eof", Len(s), Len(s)) >>
         /\ \A c \in OperatorFollowers :
              src = s \o << c >> => tokList[1] = Token(k, 0, Len(s))

\* the source ">>>=" has been tokenized to two tokens
OperatorsLongestMatchWitness ==
  /\ "tokenize" \in done
  /\ src = << ">", ">", ">", "=" >>
  /\ tokCount = 2
  /\ tokList[1].kind = "GtGtGtEq"

\* the three backticks of a code fence
Fence == << Backtick, Backtick, Backtick >>

\* the nodes of type "code" in the tree of parse, by their index in the arena
CodeNodes == {i \in 1..Len(mdTree.nodes) : mdTree.nodes[i].node_type = "code"}

\* C13: a source that is one fenced code block, an opening fence with an info
\* string, a line of text and the closing fence, gives a tree with one code
\* node whose value is the line of text without the line break that precedes
\* the closing fence, and whose lang is the info string when there is one.
CodeBlockValue ==
  "md.parse" \in done =>
    \A info \in {<< >>, <<"r", "s">>}, text \in {<<"a">>, <<"a", " ", "a">>} :
      src = Fence \o info \o << "\n" >> \o text \o << "\n" >> \o Fence =>
        /\ Cardinality(CodeNodes) = 1
        /\ \A i \in CodeNodes :
             \A d \in mdTree.nodes[i].data :
               /\ d.value = text
               /\ info # << >> => "lang" \in DOMAIN d /\ d.lang = info

\* the offset at which the line of offset t begins, behind its leading blanks
LineStart(t) ==
  LET breaks == {j \in 0..(t - 1) : byte(j) = "\n"}
      line == IF breaks = {} THEN 0
              ELSE 1 + CHOOSE j \in breaks : \A k \in breaks : k <= j
  IN ScanWhile(line, {" ", "\t"})

\* what stands behind the marker of the list item at offset s and the blanks
\* that follow it: [x] or [X], [ ], or no task marker
TaskOf(s) ==
  LET marker_end == IF byte(s) \in Digit THEN ScanWhile(s, Digit) + 1 ELSE s + 1
      q == ScanWhile(marker_end, {" ", "\t"})
  IN IF byte(q) = "[" /\ byte(q + 1) \in {"x", "X"} /\ byte(q + 2) = "]" THEN Some(TRUE)
     ELSE IF byte(q) = "[" /\ byte(q + 1) = " " /\ byte(q + 2) = "]" THEN Some(FALSE)
     ELSE Nothing

\* bit n of a byte
Bit(v, n) == (v \div (2 ^ n)) % 2

\* C14: a list item of the tree is ordered exactly when its line begins with
\* digits, which '.' or ')' follows, and not ordered when it begins with '-',
\* '*' or '+'; it is checked for [x] or [X] behind the marker, not checked for
\* [ ] and has no checked entry otherwise.  The flags byte of the record of a
\* list item says the same: bit 0 for ordered, bit 1 for checked, bit 2 for
\* not checked, never bits 1 and 2 together.
ListItemFacts ==
  /\ "md.parse" \in done =>
       \A i \in 1..Len(mdTree.nodes) :
         mdTree.nodes[i].node_type = "listItem" =>
           \A d \in mdTree.nodes[i].data, sp \in mdTree.nodes[i].span :
             LET s == sp.start.offset
             IN /\ byte(s) \in {"-", "*", "+"} \cup Digit
                /\ d.ordered = (byte(s) \in Digit)
                /\ byte(s) \in Digit => byte(ScanWhile(s, Digit)) \in {".", ")"}
                /\ TaskOf(s) = Nothing => "checked" \notin DOMAIN d
                /\ TaskOf(s) # Nothing =>
                     "checked" \in DOMAIN d /\ Some(d.checked) = TaskOf(s)
  /\ "md.parseBinary" \in done =>
       \A i \in 1..(header_count(mdBuf) - 1) :
         mdBuf[8 + 24 * i + 1] = LIST_ITEM =>
           LET flags == mdBuf[8 + 24 * i + 2]
               s == LineStart(from_le_bytes(mdBuf, 8 + 24 * i + 8))
           IN /\ Bit(flags, 0) = (IF byte(s) \in Digit THEN 1 ELSE 0)
              /\ Bit(flags, 1) = (IF TaskOf(s) = Some(TRUE) THEN 1 ELSE 0)
              /\ Bit(flags, 2) = (IF TaskOf(s) = Some(FALSE) THEN 1 ELSE 0)
              /\ ~(Bit(flags, 1) = 1 /\ Bit(flags, 2) = 1)
              /\ flags < 8

\* an ordered item with a checked task marker, parsed in both modes
ListItemFactsWitness ==
  /\ {"md.parse", "md.parseBinary"} \subseteq done
  /\ src = << "1", ".", " ", "[", "X", "]" >>
  /\ Len(mdTree.nodes) = 2
  /\ \E d \in mdTree.nodes[2].data : d.ordered /\ d.checked
  /\ mdBuf[8 + 24 + 2] = 3

\* the line of an offset of the source, counted from 1
LineOf(offset) == 1 + count_newlines(0, offset)

\* the lines of the source that hold a byte other than a blank and a line break
NonBlankLines ==
  {LineOf(j) : j \in {k \in 0..(SrcLen - 1) : byte(k) \notin {" ", "\t", "\n"}}}

\* the span of the node at index i of the arena of the tree of parse
SpanOf(i) == CHOOSE sp \in mdTree.nodes[i].span : TRUE

\* C15: in a source of whole lines a blank line, a line break with nothing but
\* blanks in front of it, gives no node: every node below the root begins on a
\* line that is not blank, the nodes follow one another without sharing a
\* line, and every line that is not blank lies in the span of one of them, so
\* the nodes are the root and the blocks of lines that are not blank; the
\* counts of parseCount and of parseBinary are the count of the tree, and a
\* record begins on the line its node of the tree begins on.
BlankLinesGiveNoNode ==
  MadeOf(src, LineFragments, MaxFrags) =>
    /\ "md.parse" \in done =>
         /\ Len(mdTree.nodes) = 1 + Len(mdTree.nodes[1].children)
         /\ \A i \in 2..Len(mdTree.nodes) :
              /\ SpanOf(i).start.line \in NonBlankLines
              /\ SpanOf(i).start.line <= SpanOf(i).end.line
              /\ i > 2 => SpanOf(i - 1).end.line < SpanOf(i).start.line
         /\ \A l \in NonBlankLines :
              \E i \in 2..Len(mdTree.nodes) :
                SpanOf(i).start.line <= l /\ l <= SpanOf(i).end.line
         /\ NonBlankLines = {} => Len(mdTree.nodes) = 1
         /\ "md.parseCount" \in done => mdCount = Len(mdTree.nodes)
         /\ "md.parseBinary" \in done =>
              /\ header_count(mdBuf) = Len(mdTree.nodes)
              /\ \A i \in 1..(header_count(mdBuf) - 1) :
                   from_le_bytes(mdBuf, 8 + 24 * i + 16) = SpanOf(i + 1).start.line
    /\ "md.parseCount" \in done /\ NonBlankLines = {} => mdCount = 1

\* a heading, a blank line and a paragraph: three nodes in the tree and for
\* parseCount
BlankLinesGiveNoNodeWitness ==
  /\ {"md.parse", "md.parseCount", "md.parseBinary"} \subseteq done
  /\ src = << "#", " ", "a", "\n", "\n", "a", "\n" >>
  /\ Len(mdTree.nodes) = 3
  /\ mdTree.nodes[2].node_type = "heading"
  /\ mdTree.nodes[3].node_type = "paragraph"
  /\ mdCount = 3

\* the node types of the blocks that bear text
TextBearing == {"heading", "paragraph", "blockquote", "listItem"}

KeysOf(object) == {object[k][1] : k \in DOMAIN object}

\* the node objects of the JSON text parseToJson returned
JsonNodes == (CHOOSE json \in mdJson : TRUE)[3][2]

\* C17: in the output of parseToJson the object of a node has the keys id,
\* type and children, and it has the key parent, span or data exactly when
\* the node has a parent, a span or data: a field that is absent is left out,
\* never written as null.
JsonOmitsAbsentFields ==
  {"md.parse", "md.parseToJson"} \subseteq done /\ mdJson # Nothing =>
    /\ Len(JsonNodes) = Len(mdTree.nodes)
    /\ \A i \in 1..Len(JsonNodes) :
         /\ {"id", "type", "children"} \subseteq KeysOf(JsonNodes[i])
         /\ ("parent" \in KeysOf(JsonNodes[i])) = (mdTree.nodes[i].parent # Nothing)
         /\ ("span" \in KeysOf(JsonNodes[i])) = (mdTree.nodes[i].span # Nothing)
         /\ ("data" \in KeysOf(JsonNodes[i])) = (mdTree.nodes[i].data # Nothing)

ArenaIdsAreIndices ==
  /\ \A i \in 1..Len(arena.nodes) : arena.nodes[i].id = i - 1
  /\ root_id(arena) = 0
  /\ arena.nodes[1].node_type = "root"
  /\ node_count(arena) >= node_count(arenaCall.before)
  /\ \A i \in 1..Len(arenaCall.before.nodes) :
       /\ arena.nodes[i].id = arenaCall.before.nodes[i].id
       /\ arena.nodes[i].node_type = arenaCall.before.nodes[i].node_type
  /\ arenaCall.op = "add_node" =>
       /\ arenaCall.ret = node_count(arenaCall.before)
       /\ node_count(arena) = arenaCall.ret + 1
       /\ arena.nodes[arenaCall.ret + 1].id = arenaCall.ret
       /\ SubSeq(arena.nodes, 1, arenaCall.ret) = arenaCall.before.nodes
  /\ arenaCall.op # "add_node" => node_count(arena) = node_count(arenaCall.before)

\* add_node of a Node::new(3, ...) on a Tree of two nodes returned 2
ArenaIdsAreIndicesWitness ==
  /\ arenaCall.op = "add_node"
  /\ arenaCall.a = 3
  /\ arenaCall.ret = 2
  /\ arena.nodes[3].id = 2

\* C20: get_node and get_node_mut return Ok, with the node of that id, exactly
\* when the id is below the node count, and otherwise the error
\* InvalidNodeId carrying the id; add_child returns InvalidNodeId, of the
\* child id or else of the parent id, when one of them is not below the node
\* count, and Ok otherwise.
ArenaLookupsReportBadIds ==
  LET count == node_count(arenaCall.before)
  IN /\ arenaCall.op = "get_node" =>
          /\ (arenaCall.err = Nothing) = (arenaCall.a < count)
          /\ arenaCall.a < count => arenaCall.ret = arenaCall.a
          /\ arenaCall.a >= count => arenaCall.err = Some(InvalidNodeId(arenaCall.a))
     /\ arenaCall.op = "add_child" =>
          /\ (arenaCall.err = Nothing) = (arenaCall.a < count /\ arenaCall.b < count)
          /\ arenaCall.b >= count => arenaCall.err = Some(InvalidNodeId(arenaCall.b))
          /\ arenaCall.b < count /\ arenaCall.a >= count =>
               arenaCall.err = Some(InvalidNodeId(arenaCall.a))

\* add_child with a parent id that is no node and a child id that is one
ArenaLookupsReportBadIdsWitness ==
  /\ arenaCall.op = "add_child"
  /\ arenaCall.a = 3 /\ arenaCall.b = 1
  /\ node_count(arenaCall.before) = 2
  /\ arenaCall.err = Some(InvalidNodeId(3))

\* C29: add_child changes nothing when it fails: after a call that returned an
\* error the Tree is the Tree before the call, so the parent of a child that
\* exists is not set when the parent id is out of range.
AddChildIsAtomic ==
  arenaCall.op = "add_child" /\ arenaCall.err # Nothing => arena = arenaCall.before

\* the places of id c in the children list of the node at index i
PlacesIn(t, i, c) == {k \in DOMAIN t.nodes[i].children : t.nodes[i].children[k] = c}

\* C30: after add_node calls and add_child calls that returned Ok, the id c is
\* in the children list of node p exactly when the parent of node c is p, it
\* is in no more than one children list and no more than once in it, and a
\* node that has a parent has an id above the id of its parent.
LinksAreConsistent ==
  \A i, j \in 1..Len(arena.nodes) :
    /\ (PlacesIn(arena, i, j - 1) # {}) = (arena.nodes[j].parent = Some(i - 1))
    /\ Cardinality(PlacesIn(arena, i, j - 1)) <= 1
    /\ arena.nodes[j].parent = Some(i - 1) => j > i

\* C21: expect(kind) is advisory.  When the current token is not of the kind
\* the call changes nothing: current, peek, the cursor of the lexer and the
\* node array are what they were, no node is pushed and nothing is raised.
\* When it is of the kind the call consumes that one token: current is what
\* peek was, peek is the next token of the lexer and no node is pushed.
ExpectIsAdvisory ==
  parCall.kind # None =>
    LET b == parCall.before
        a == parCall.after
    IN /\ b.cur.kind # parCall.kind => a = b
       /\ b.cur.kind = parCall.kind =>
            /\ a.cur = b.peek
            /\ a.peek = next_token(b.pos).tok
            /\ a.pos = next_token(b.pos).pos
       /\ a.nodes = b.nodes /\ a.log = b.log /\ a.stall = b.stall

\* expect of a kind the current token, which is not the end of the input, does
\* not have
ExpectIsAdvisoryWitness ==
  /\ parCall.kind = "RParen"
  /\ parCall.before.cur.kind \notin {"RParen", "Eof"}
  /\ parCall.after = parCall.before

\* a scanner at an offset of the source
ScannerAt(pos) == [pos |-> pos, line |-> LineOf(pos), stall |-> FALSE]

\* C22: the Markdown scanner makes progress and stays inside the source: a
\* block scan of either mode that starts at a cursor below the length of the
\* source ends at a cursor above the one it started at and not above the
\* length, also after the fallback from a heading to a paragraph; so no loop
\* of parse, parseBinary or parseCount runs an iteration that leaves the
\* cursor where it was, and each of them ends.
MdScannerProgress ==
  /\ ~mdStall
  /\ done # {} =>
       \A pos \in 0..(SrcLen - 1) :
         \A q \in {scan_block_to_node(ScannerAt(pos)).p,
                   scan_block_to_binary(ScannerAt(pos)).p} :
           pos < q.pos /\ q.pos <= SrcLen

\* the three entry points have returned on a line of '#' and a letter, which is
\* scanned as a heading first and as a paragraph then
MdScannerProgressWitness ==
  /\ done = {"md.parse", "md.parseBinary", "md.parseCount"}
  /\ src = << "#", "a", "\n" >>
  /\ Len(mdTree.nodes) = 2
  /\ mdTree.nodes[2].node_type = "paragraph"
  /\ mdCount = 2

\* the number of '#' characters from offset s on
HashRun(s) == ScanWhile(s, {"#"}) - s

\* the block that begins with '#' at offset s is a heading by its '#' characters
HeadingAt(s) ==
  /\ HashRun(s) \in 1..6
  /\ byte(s + HashRun(s)) \in {" ", "\n", None}

\* C23: a block that begins with '#' is a heading exactly when it has one to
\* six '#' characters and a space, a line break or the end of the input
\* behind them, and the depth of the heading (the depth entry of the data of
\* the node, the flags byte of the record) is the number of the '#'
\* characters; otherwise the block is scanned from its first byte on as a
\* paragraph.  Every heading begins with '#'.
HeadingByHashes ==
  /\ "md.parse" \in done =>
       \A i \in 2..Len(mdTree.nodes) :
         LET node == mdTree.nodes[i]
             s == SpanOf(i).start.offset
         IN /\ node.node_type = "heading" => byte(s) = "#"
            /\ byte(s) = "#" =>
                 /\ node.node_type = (IF HeadingAt(s) THEN "heading" ELSE "paragraph")
                 /\ HeadingAt(s) => \A d \in node.data : d.depth = HashRun(s)
  /\ "md.parseBinary" \in done =>
       \A i \in 1..(header_count(mdBuf) - 1) :
         LET type == mdBuf[8 + 24 * i + 1]
             s == LineStart(from_le_bytes(mdBuf, 8 + 24 * i + 8))
         IN /\ type = HEADING =>
                 /\ byte(s) = "#" /\ HeadingAt(s)
                 /\ mdBuf[8 + 24 * i + 2] = HashRun(s)
            /\ type = PARAGRAPH /\ byte(s) = "#"
                 /\ from_le_bytes(mdBuf, 8 + 24 * i + 8) = s => ~HeadingAt(s)

\* seven '#' characters: a paragraph in both modes; six make a heading of depth 6
HeadingByHashesWitness ==
  /\ {"md.parse", "md.parseBinary"} \subseteq done
  /\ src = << "#", "#", "#", "#", "#", "#", "#" >>
  /\ Len(mdTree.nodes) = 2
  /\ mdTree.nodes[2].node_type = "paragraph"
  /\ mdBuf[8 + 24 + 1] = PARAGRAPH

\* C24: a list item that is not ordered begins with '-', '*' or '+' and a
\* space behind it, and an ordered one with digits, '.' or ')' and a space; a
\* block that begins with '-', '*' or '+' and another byte than a space is no
\* list item, in either mode.
ListItemNeedsSpace ==
  /\ "md.parse" \in done =>
       \A i \in 2..Len(mdTree.nodes) :
         mdTree.nodes[i].node_type = "listItem" =>
           LET s == SpanOf(i).start.offset
           IN /\ byte(s) \in {"-", "*", "+"} => byte(s + 1) = " "
              /\ byte(s) \in Digit =>
                   /\ byte(ScanWhile(s, Digit)) \in {".", ")"}
                   /\ byte(ScanWhile(s, Digit) + 1) = " "
  /\ "md.parseBinary" \in done =>
       \A i \in 1..(header_count(mdBuf) - 1) :
         mdBuf[8 + 24 * i + 1] = LIST_ITEM =>
           LET s == LineStart(from_le_bytes(mdBuf, 8 + 24 * i + 8))
           IN byte(s) \in {"-", "*", "+"} => byte(s + 1) = " "

\* the first word of a line: what stands between the blanks in front of it and
\* the next blank
FirstWord(s) ==
  LET t == trim_start(s)
      blanks == {k \in 1..Len(t) : t[k] \in {" ", "\t"}}
  IN IF blanks = {} THEN t
     ELSE SubSeq(t, 1, (CHOOSE k \in blanks : \A j \in blanks : k <= j) - 1)

\* the info string of the fence at offset s: the rest of its line
InfoOf(s) == text_slice(s + 3, FindByte("\n", s + 3))

\* C25: the language of a fenced code block is the first word of the info
\* string of its opening fence: the lang entry of the data of the node is that
\* word, and is absent when there is none, and the flags byte of the record is
\* the length of that word (255 at most), whatever else stands on the line.
CodeLanguageIsFirstWord ==
  /\ "md.parse" \in done =>
       \A i \in CodeNodes :
         \A d \in mdTree.nodes[i].data :
           LET word == FirstWord(InfoOf(SpanOf(i).start.offset))
           IN IF word = << >> THEN "lang" \notin DOMAIN d
              ELSE "lang" \in DOMAIN d /\ d.lang = word
  /\ "md.parseBinary" \in done =>
       \A i \in 1..(header_count(mdBuf) - 1) :
         mdBuf[8 + 24 * i + 1] = CODE /\ mdNodes[i + 1].span_start = 1 =>
           mdBuf[8 + 24 * i + 2] = Min(Len(FirstWord(InfoOf(LineStart(0)))), 255)

\* the nodes of operators among the nodes parse pushed, in the order of the pushes
OperatorNodes ==
  SelectSeq(jsPushed, LAMBDA n : n.kind \in {"BinaryExpression", "LogicalExpression",
                                             "AssignmentExpression"})

\* C26: in a chain a op1 b op2 c the two operator nodes are pushed inner one
\* first.  For two operators of one level other than exponentiation and
\* assignment the first node covers a op1 b and the second the whole chain
\* (left-associative); for two '**' and for two assignment operators the first
\* node covers b op2 c and the second the whole chain (right-associative); and
\* for operators of two levels the node of the tighter one is pushed first and
\* lies inside the node of the looser one, which covers the whole chain.
ChainAssociativity ==
  "parseBinary" \in done =>
    \A o1, o2 \in ChainOps :
      src = <<"x">> \o o1[1] \o <<"x">> \o o2[1] \o <<"1">> =>
        LET b_start == 1 + Len(o1[1])
            b_end == b_start + 1
            c_end == Len(src)
            right == o2[2] > o1[2] \/ (o1[2] = o2[2] /\ o1[2] \in {1, 13})
        IN /\ Len(OperatorNodes) = 2
           /\ OperatorNodes[2].start = 0 /\ OperatorNodes[2].end = c_end
           /\ right => OperatorNodes[1].start = b_start /\ OperatorNodes[1].end = c_end
           /\ ~right => OperatorNodes[1].start = 0 /\ OperatorNodes[1].end = b_end

\* x - x + 1 has been parsed: the first operator node covers x - x
ChainAssociativityWitness ==
  /\ "parseBinary" \in done
  /\ src = << "x", "-", "x", "+", "1" >>
  /\ Len(OperatorNodes) = 2
  /\ OperatorNodes[1].start = 0 /\ OperatorNodes[1].end = 3

\* C27: the line counter of the Markdown scanner is 1 plus the number of line
\* breaks in front of the cursor after every block scan of either mode, also
\* in a fenced code block with backticks in its body that close no fence; so
\* the span_end of the root record, the line counter at the end of the source,
\* is 1 plus the number of line breaks of the source.
LineCounterTracksBreaks ==
  /\ "md.parseBinary" \in done => mdNodes[1].span_end = LineOf(SrcLen)
  /\ done # {} =>
       \A pos \in 0..(SrcLen - 1) :
         \A q \in {scan_block_to_node(ScannerAt(pos)).p,
                   scan_block_to_binary(ScannerAt(pos)).p} :
           q.line = LineOf(q.pos)

\* C28: every token the JS/TS lexer returns lies in the source, 0 <= start <=
\* end <= the length of the source, and the cursor of the lexer is never above
\* the length, also when the last byte of a string or of a template literal
\* is a backslash.
LexerStaysInBounds ==
  /\ \A i \in 1..Len(lexCursors) : lexCursors[i] <= SrcLen
  /\ \A i \in 1..Len(lexToks) :
       /\ 0 <= lexToks[i].start
       /\ lexToks[i].start <= lexToks[i].end
       /\ lexToks[i].end <= SrcLen
  /\ \A i \in 1..Len(tokList) : tokList[i].end <= SrcLen

====
